---- MODULE Spec2Model ----
(***************************************************************************)
(* Goal-to-shopper affinity: the merchant-level matrix pipeline            *)
(* (co-orders, lift, P5-P95 normalisation, CoAffinity) and the             *)
(* customer-level scoring (purchase history, eligibility, seed weights,    *)
(* affinity, batch processing).                                            *)
(*                                                                         *)
(* JavaScript numbers are modelled as exact rationals <<num, den>> in      *)
(* lowest terms with den > 0; Dates are modelled as integer day numbers.   *)
(* A JavaScript Map is a sequence of its entries in insertion order.       *)
(* A nullable value is a sequence of length 0 (null) or 1.                 *)
(***************************************************************************)
EXTENDS Integers, Sequences, FiniteSets, TLC

VARIABLES
    pc,                 \* position of the running function
    customers,          \* Customer[] : sequence of customer ids
    orders,             \* Order[]
    coAffinityMatrix,   \* CoAffinityMatrix {categories, matrix}
    goalCategory,
    activeDays,
    referenceDate,
    processed,          \* number of loop iterations completed
    results,            \* CustomerAffinityResult[]
    skipped,            \* {customerId, reason}[]
    error,              \* the thrown Error, << >> when none
    categoryIds,        \* Category[] as the sequence of its ids
    matrix,             \* calculateCoOrderMatrix: the count matrix being built
    orderCounts,        \* calculateCoOrderMatrix: Map category id -> order count
    coOrdersMatrix,     \* CoOrderMatrix, << >> before it is returned
    liftMatrix,         \* LiftMatrix, << >> before it is returned
    normalizedLift,     \* NormalizedMatrix, << >> before it is returned
    normalizedCoOrders, \* NormalizedMatrix, << >> before it is returned
    stats,              \* MatrixStats, << >> before it is built
    args,               \* arguments of a function called on its own
    returned,           \* its return value, << >> before it returns
    purchaseHistory,    \* processAllCustomers: purchaseHistory of the iteration
    affinityStats       \* calculateAffinities: stats, << >> before it is built

batchInputs == <<customers, goalCategory, activeDays, referenceDate>>
batchOutputs == <<results, skipped, error>>
batchVars == <<batchInputs, batchOutputs>>
matrixVars == <<categoryIds, matrix, orderCounts, coOrdersMatrix, liftMatrix,
                normalizedLift, normalizedCoOrders, stats>>
callVars == <<args, returned>>
scoringVars == <<purchaseHistory, affinityStats>>

vars == <<pc, customers, orders, coAffinityMatrix, goalCategory, activeDays,
          referenceDate, processed, results, skipped, error, categoryIds,
          matrix, orderCounts, coOrdersMatrix, liftMatrix, normalizedLift,
          normalizedCoOrders, stats, args, returned, purchaseHistory,
          affinityStats>>

----------------------------------------------------------------------------
(* Bounds of the explored inputs *)

MaxBatchOrders == 2
MaxBatchItems == 1

----------------------------------------------------------------------------
(* JavaScript numbers as exact rationals *)

Abs(x) == IF x < 0 THEN -x ELSE x

RECURSIVE GCD(_, _)
GCD(a, b) == IF b = 0 THEN a ELSE GCD(b, a % b)

Rat(n, d) ==
    LET g == GCD(Abs(n), Abs(d))
        s == IF d < 0 THEN -1 ELSE 1
    IN  <<(s * n) \div g, (s * d) \div g>>

Zero == Rat(0, 1)
One == Rat(1, 1)
RAdd(x, y) == Rat(x[1] * y[2] + y[1] * x[2], x[2] * y[2])
RSub(x, y) == Rat(x[1] * y[2] - y[1] * x[2], x[2] * y[2])
RMul(x, y) == Rat(x[1] * y[1], x[2] * y[2])
RDiv(x, y) == Rat(x[1] * y[2], x[2] * y[1])
RLe(x, y) == x[1] * y[2] <= y[1] * x[2]
RLt(x, y) == x[1] * y[2] < y[1] * x[2]
RMin(x, y) == IF RLt(y, x) THEN y ELSE x
RMax(x, y) == IF RLt(x, y) THEN y ELSE x

----------------------------------------------------------------------------
(* Sequence helpers *)

\* Array.prototype.indexOf / Map.prototype.get on a key field: 0 when absent
IndexOfCategory(infos, catId) ==
    IF \E i \in 1..Len(infos) : infos[i].categoryId = catId
    THEN CHOOSE i \in 1..Len(infos) : infos[i].categoryId = catId
    ELSE 0

\* Array.prototype.includes
Includes(s, x) == \E i \in 1..Len(s) : s[i] = x

\* [...new Set(items.map(item => item.categoryId))]: first occurrences, in order
RECURSIVE uniqueCategories(_)
uniqueCategories(items) ==
    IF items = << >> THEN << >>
    ELSE LET front == uniqueCategories(SubSeq(items, 1, Len(items) - 1))
             c == items[Len(items)].categoryId
         IN  IF Includes(front, c) THEN front ELSE Append(front, c)

\* All sequences over S of length at most n
RECURSIVE SeqsUpTo(_, _)
SeqsUpTo(S, n) ==
    IF n = 0 THEN {<< >>}
    ELSE LET shorter == SeqsUpTo(S, n - 1)
         IN  shorter \cup {Append(s, x) : s \in shorter, x \in S}

----------------------------------------------------------------------------
(* Customer level: purchase history (seed-weight calculator) *)

\* Variant: the comparator is a - b, the oldest order comes first
insertByDateAsc(sorted, o) ==
    LET before == {i \in 1..Len(sorted) : sorted[i].createdAt <= o.createdAt}
        k == Cardinality(before)
    IN  SubSeq(sorted, 1, k) \o <<o>> \o SubSeq(sorted, k + 1, Len(sorted))

\* Array.prototype.sort((a, b) => b.createdAt - a.createdAt): stable, descending
insertByDateDesc(sorted, o) ==
    LET before == {i \in 1..Len(sorted) : sorted[i].createdAt >= o.createdAt}
        k == Cardinality(before)
    IN  SubSeq(sorted, 1, k) \o <<o>> \o SubSeq(sorted, k + 1, Len(sorted))

RECURSIVE sortByDateDesc(_)
sortByDateDesc(os) ==
    IF os = << >> THEN << >>
    ELSE insertByDateDesc(sortByDateDesc(SubSeq(os, 1, Len(os) - 1)), os[Len(os)])

\* Variant: the history is built from every order (no filter on customerId)
ordersOfAnyCustomer(customerId, os) == os

\* orders.filter((o) => o.customerId === customerId)
ordersOfCustomer(customerId, os) ==
    LET own(o) == o.customerId = customerId
    IN  SelectSeq(os, own)

\* Variant: an existing entry loses its flag when an older order holds the
\* category (the flag is updated during the walk)
RECURSIVE walkOrderCategoriesFlagUpdated(_, _, _, _)
walkOrderCategoriesFlagUpdated(categories, orderCategories, order, lastOrderCategories) ==
    IF orderCategories = << >> THEN categories
    ELSE LET catId == Head(orderCategories)
             at == IndexOfCategory(categories, catId)
             updated ==
                 IF at # 0
                 THEN [categories EXCEPT ![at] =
                          [@ EXCEPT !.frequency = @ + 1,
                                    !.isLastOrder = FALSE,
                                    !.lastPurchaseDate =
                                        IF order.createdAt > @
                                        THEN order.createdAt ELSE @]]
                 ELSE Append(categories,
                             [categoryId |-> catId,
                              frequency |-> 1,
                              lastPurchaseDate |-> order.createdAt,
                              isLastOrder |-> catId \in lastOrderCategories])
         IN  walkOrderCategoriesFlagUpdated(updated, Tail(orderCategories), order,
                                            lastOrderCategories)

\* Inner loop of buildCustomerPurchaseHistory: one order's distinct categories
RECURSIVE walkOrderCategories(_, _, _, _)
walkOrderCategories(categories, orderCategories, order, lastOrderCategories) ==
    IF orderCategories = << >> THEN categories
    ELSE LET catId == Head(orderCategories)
             at == IndexOfCategory(categories, catId)
             updated ==
                 IF at # 0
                 THEN [categories EXCEPT ![at] =
                          [@ EXCEPT !.frequency = @ + 1,
                                    !.lastPurchaseDate =
                                        IF order.createdAt > @
                                        THEN order.createdAt ELSE @]]
                 ELSE Append(categories,
                             [categoryId |-> catId,
                              frequency |-> 1,
                              lastPurchaseDate |-> order.createdAt,
                              isLastOrder |-> catId \in lastOrderCategories])
         IN  walkOrderCategories(updated, Tail(orderCategories), order,
                                 lastOrderCategories)

\* Variant: the walk takes every item of an order, not its distinct categories
RECURSIVE walkCustomerOrdersPerItem(_, _, _)
walkCustomerOrdersPerItem(categories, customerOrders, lastOrderCategories) ==
    IF customerOrders = << >> THEN categories
    ELSE LET order == Head(customerOrders)
             perItem == [i \in 1..Len(order.items) |-> order.items[i].categoryId]
         IN  walkCustomerOrdersPerItem(
                 walkOrderCategories(categories, perItem, order,
                                     lastOrderCategories),
                 Tail(customerOrders), lastOrderCategories)

\* Outer loop of buildCustomerPurchaseHistory: every order of the customer
RECURSIVE walkCustomerOrders(_, _, _)
walkCustomerOrders(categories, customerOrders, lastOrderCategories) ==
    IF customerOrders = << >> THEN categories
    ELSE LET order == Head(customerOrders)
         IN  walkCustomerOrders(
                 walkOrderCategories(categories, uniqueCategories(order.items),
                                     order, lastOrderCategories),
                 Tail(customerOrders), lastOrderCategories)

\* << >> is null; otherwise <<history>>
buildCustomerPurchaseHistory(customerId, os) ==
    LET customerOrders == sortByDateDesc(ordersOfCustomer(customerId, os))
    IN  IF Len(customerOrders) = 0 THEN << >>
        ELSE LET lastOrder == customerOrders[1]
                 lastOrderCategories ==
                     {lastOrder.items[i].categoryId : i \in 1..Len(lastOrder.items)}
             IN  <<[customerId |-> customerId,
                    categories |-> walkCustomerOrders(<< >>, customerOrders,
                                                      lastOrderCategories),
                    lastOrderDate |-> lastOrder.createdAt,
                    totalOrders |-> Len(customerOrders)]>>

\* purchaseHistory.categories.has(cat)
hasCategory(history, cat) == IndexOfCategory(history.categories, cat) # 0

\* Variant: the purchased-goal check is missing
isCustomerEligibleNoGoalCheck(history, goal, activityDays, refDate) ==
    LET cutoffDate == refDate - activityDays
    IN  history.lastOrderDate >= cutoffDate

\* Variant: the window boundary is exclusive
isCustomerEligibleExclusive(history, goal, activityDays, refDate) ==
    IF hasCategory(history, goal) THEN FALSE
    ELSE LET cutoffDate == refDate - activityDays
         IN  history.lastOrderDate > cutoffDate

isCustomerEligible(history, goal, activityDays, refDate) ==
    IF hasCategory(history, goal) THEN FALSE
    ELSE LET cutoffDate == refDate - activityDays
         IN  history.lastOrderDate >= cutoffDate

----------------------------------------------------------------------------
(* Customer level: seed weights *)

RECENCY_BOOST_LAST_ORDER == Rat(75, 100)
RECENCY_BOOST_OLDER == Rat(5, 10)
FREQUENCY_BOOST_CAP == Rat(16, 10)
FREQUENCY_BOOST_BASE == Rat(10, 10)
FREQUENCY_BOOST_MULTIPLIER == Rat(5, 10)

\* Math.log2 in binary fixed point: the integer part by halving, then
\* Log2Bits fraction bits by repeated squaring. Exact on powers of two,
\* a lower approximation within 2^-9 elsewhere.
Log2Bits == 10
Log2Scale == 2 ^ 12

RECURSIVE floorLog2(_)
floorLog2(n) == IF n < 2 THEN 0 ELSE 1 + floorLog2(n \div 2)

RECURSIVE log2Fraction(_, _, _)
log2Fraction(y, bit, acc) ==
    IF bit > Log2Bits THEN acc
    ELSE LET sq == (y * y) \div Log2Scale
         IN  IF sq >= 2 * Log2Scale
             THEN log2Fraction(sq \div 2, bit + 1, acc + 2 ^ (Log2Bits - bit))
             ELSE log2Fraction(sq, bit + 1, acc)

log2(n) ==
    IF n <= 0 THEN Zero
    ELSE LET e == floorLog2(n)
             y == (n * Log2Scale) \div (2 ^ e)
         IN  Rat(e * (2 ^ Log2Bits) + log2Fraction(y, 1, 0), 2 ^ Log2Bits)

\* Variant: the boost is not capped
calculateFrequencyBoostUncapped(frequency) ==
    IF frequency <= 0 THEN FREQUENCY_BOOST_BASE
    ELSE RAdd(FREQUENCY_BOOST_BASE,
              RMul(FREQUENCY_BOOST_MULTIPLIER, log2(frequency)))

calculateFrequencyBoost(frequency) ==
    IF frequency <= 0 THEN FREQUENCY_BOOST_BASE
    ELSE LET boost == RAdd(FREQUENCY_BOOST_BASE,
                           RMul(FREQUENCY_BOOST_MULTIPLIER, log2(frequency)))
         IN  RMin(boost, FREQUENCY_BOOST_CAP)

\* Variant: a category of the last order is not discounted (boost 1.0)
calculateRecencyBoostFull(isLastOrder) ==
    IF isLastOrder THEN One ELSE RECENCY_BOOST_OLDER

calculateRecencyBoost(isLastOrder) ==
    IF isLastOrder THEN RECENCY_BOOST_LAST_ORDER ELSE RECENCY_BOOST_OLDER

calculateSeedWeight(purchaseInfo) ==
    LET recencyBoost == calculateRecencyBoost(purchaseInfo.isLastOrder)
        frequencyBoost == calculateFrequencyBoost(purchaseInfo.frequency)
    IN  [categoryId |-> purchaseInfo.categoryId,
         recencyBoost |-> recencyBoost,
         frequencyBoost |-> frequencyBoost,
         seedWeight |-> RMul(recencyBoost, frequencyBoost)]

calculateAllSeedWeights(history) ==
    [i \in 1..Len(history.categories) |-> calculateSeedWeight(history.categories[i])]

----------------------------------------------------------------------------
(* Customer level: affinity calculator *)

\* buildCategoryIndexMap: category id -> 1-based index, 0 = undefined
categoryIndex(categories, cat) ==
    IF Includes(categories, cat)
    THEN CHOOSE i \in 1..Len(categories) :
             /\ categories[i] = cat
             /\ \A j \in (i + 1)..Len(categories) : categories[j] # cat
    ELSE 0

getCoAffinity(coAffinity, cat1, cat2) ==
    LET idx1 == categoryIndex(coAffinity.categories, cat1)
        idx2 == categoryIndex(coAffinity.categories, cat2)
    IN  IF idx1 = 0 \/ idx2 = 0 THEN Zero ELSE coAffinity.matrix[idx1][idx2]

calculateWeightedSignals(seedWeights, goal, coAffinity) ==
    [i \in 1..Len(seedWeights) |->
        [categoryId |-> seedWeights[i].categoryId,
         signal |-> RMul(getCoAffinity(coAffinity, seedWeights[i].categoryId, goal),
                         seedWeights[i].seedWeight)]]

RECURSIVE maxSignal(_)
maxSignal(signals) ==
    IF Len(signals) = 1 THEN signals[1].signal
    ELSE RMax(signals[1].signal, maxSignal(Tail(signals)))

\* Variant: the raw signal is the sum of the weighted signals
RECURSIVE calculateRawSignalSum(_)
calculateRawSignalSum(weightedSignals) ==
    IF Len(weightedSignals) = 0 THEN Zero
    ELSE RAdd(weightedSignals[1].signal, calculateRawSignalSum(Tail(weightedSignals)))

calculateRawSignal(weightedSignals) ==
    IF Len(weightedSignals) = 0 THEN Zero ELSE maxSignal(weightedSignals)

\* Math.exp(x) for x >= 0 as its cubic Taylor polynomial 1 + x + x^2/2 + x^3/6,
\* and exp(-x) as its reciprocal: rational, increasing, exp(0) = 1.
expTaylor(x) ==
    RAdd(One, RMul(x, RAdd(One, RMul(RMul(x, Rat(1, 2)),
                                     RAdd(One, RMul(x, Rat(1, 3)))))))

exp(x) ==
    IF RLe(Zero, x) THEN expTaylor(x) ELSE RDiv(One, expTaylor(RSub(Zero, x)))

\* Variant: the decay itself, without the complement to 1
calculateFinalAffinityDecay(rawSignal) == exp(RSub(Zero, rawSignal))

calculateFinalAffinity(rawSignal) == RSub(One, exp(RSub(Zero, rawSignal)))

calculateCustomerAffinity(history, goal, coAffinity) ==
    LET seedWeights == calculateAllSeedWeights(history)
        weightedSignals == calculateWeightedSignals(seedWeights, goal, coAffinity)
        maxWeightedSignal == calculateRawSignal(weightedSignals)
    IN  [customerId |-> history.customerId,
         goalCategory |-> goal,
         seedWeights |-> seedWeights,
         weightedSignals |-> weightedSignals,
         maxWeightedSignal |-> maxWeightedSignal,
         affinity |-> calculateFinalAffinity(maxWeightedSignal)]

----------------------------------------------------------------------------
(* Customer level: batch processor, processAllCustomers *)

\* Variant: the skip reason is decided by the activity window first
processCustomerWindowFirst(customerId, os, coAffinity, goal, days, refDate) ==
    LET history == buildCustomerPurchaseHistory(customerId, os)
    IN  IF history = << >>
        THEN [skipped |-> <<[customerId |-> customerId, reason |-> "No orders"]>>,
              results |-> << >>]
        ELSE IF ~isCustomerEligible(history[1], goal, days, refDate)
        THEN LET inactive == history[1].lastOrderDate < refDate - days
                 reason == IF inactive
                           THEN "Not active in window"
                           ELSE "Already purchased goal category"
             IN  [skipped |-> <<[customerId |-> customerId, reason |-> reason]>>,
                  results |-> << >>]
        ELSE [skipped |-> << >>,
              results |-> <<calculateCustomerAffinity(history[1], goal, coAffinity)>>]

\* Body of the customer loop: the skip record or the result it pushes
processCustomer(customerId, os, coAffinity, goal, days, refDate) ==
    LET history == buildCustomerPurchaseHistory(customerId, os)
    IN  IF history = << >>
        THEN [skipped |-> <<[customerId |-> customerId, reason |-> "No orders"]>>,
              results |-> << >>]
        ELSE IF ~isCustomerEligible(history[1], goal, days, refDate)
        THEN LET hasGoalCategory == hasCategory(history[1], goal)
                 reason == IF hasGoalCategory
                           THEN "Already purchased goal category"
                           ELSE "Not active in window"
             IN  [skipped |-> <<[customerId |-> customerId, reason |-> reason]>>,
                  results |-> << >>]
        ELSE [skipped |-> << >>,
              results |-> <<calculateCustomerAffinity(history[1], goal, coAffinity)>>]

\* The thrown Error: the goal category and the available categories it names
goalNotFoundError(goal, coAffinity) ==
    [goalCategory |-> goal, availableCategories |-> coAffinity.categories]

\* Variant: the goal category is not validated
validateGoalCategoryMissing ==
    /\ pc = "start"
    /\ pc' = "loop"
    /\ UNCHANGED <<batchInputs, orders, coAffinityMatrix, processed,
                   batchOutputs, matrixVars, callVars, scoringVars>>

\* Goal validation before the loop
validateGoalCategory ==
    /\ pc = "start"
    /\ IF ~Includes(coAffinityMatrix.categories, goalCategory)
       THEN /\ error' = <<goalNotFoundError(goalCategory, coAffinityMatrix)>>
            /\ pc' = "thrown"
       ELSE /\ error' = error
            /\ pc' = "loop"
    /\ UNCHANGED <<batchInputs, orders, coAffinityMatrix, processed, results,
                   skipped, matrixVars, callVars, scoringVars>>

\* Variant: a skip leaves the loop (break for continue)
processNextCustomerBreak ==
    /\ pc = "loop"
    /\ processed < Len(customers)
    /\ LET out == processCustomer(customers[processed + 1], orders,
                                  coAffinityMatrix, goalCategory, activeDays,
                                  referenceDate)
       IN  /\ results' = results \o out.results
           /\ skipped' = skipped \o out.skipped
           /\ pc' = IF out.skipped # << >> THEN "done" ELSE pc
    /\ processed' = processed + 1
    /\ UNCHANGED <<batchInputs, orders, coAffinityMatrix, error, matrixVars,
                   callVars, scoringVars>>

\* One iteration of for (const customer of customers)
processNextCustomer ==
    /\ pc = "loop"
    /\ processed < Len(customers)
    /\ LET out == processCustomer(customers[processed + 1], orders,
                                  coAffinityMatrix, goalCategory, activeDays,
                                  referenceDate)
       IN  /\ results' = results \o out.results
           /\ skipped' = skipped \o out.skipped
    /\ processed' = processed + 1
    /\ UNCHANGED <<pc, batchInputs, orders, coAffinityMatrix, error, matrixVars,
                   callVars, scoringVars>>

\* return { results, skipped }
returnResults ==
    /\ pc = "loop"
    /\ processed = Len(customers)
    /\ pc' = "done"
    /\ UNCHANGED <<batchInputs, orders, coAffinityMatrix, processed,
                   batchOutputs, matrixVars, callVars, scoringVars>>

----------------------------------------------------------------------------
(* Merchant level: co-orders calculator *)

\* Array.from({ length: n }, () => Array(n).fill(0))
zeroMatrix(n) == [i \in 1..n |-> [j \in 1..n |-> 0]]

\* orderCounts.set(cat, 0) for every category id
zeroCounts(ids) == [c \in {ids[i] : i \in 1..Len(ids)} |-> 0]

\* Variant: the categories of all items, repeats included (no Set)
RECURSIVE itemCategories(_)
itemCategories(order) ==
    IF order.items = << >> THEN << >>
    ELSE <<Head(order.items).categoryId>>
             \o itemCategories([order EXCEPT !.items = Tail(@)])

\* const orderCategories = [...new Set(order.items.map(...))]
orderCategoriesOf(order) == uniqueCategories(order.items)

\* Variant: a category that is not a key is given a count
RECURSIVE countCategoriesAddsKey(_, _)
countCategoriesAddsKey(counts, orderCategories) ==
    IF orderCategories = << >> THEN counts
    ELSE LET cat == Head(orderCategories)
             next == IF cat \in DOMAIN counts
                     THEN [counts EXCEPT ![cat] = @ + 1]
                     ELSE (cat :> 1) @@ counts
         IN  countCategoriesAddsKey(next, Tail(orderCategories))

\* Variant: only the first category of an order is counted (break after one)
countCategoriesFirstOnly(counts, orderCategories) ==
    IF orderCategories = << >> THEN counts
    ELSE LET cat == Head(orderCategories)
         IN  IF cat \in DOMAIN counts
             THEN [counts EXCEPT ![cat] = @ + 1]
             ELSE counts

\* Single-category loop: the counts after one order's distinct categories
RECURSIVE countCategories(_, _)
countCategories(counts, orderCategories) ==
    IF orderCategories = << >> THEN counts
    ELSE LET cat == Head(orderCategories)
             next == IF cat \in DOMAIN counts
                     THEN [counts EXCEPT ![cat] = @ + 1]
                     ELSE counts
         IN  countCategories(next, Tail(orderCategories))

\* Variant: the mirrored cell is not incremented
incrementPairOneWay(m, idx1, idx2) == [m EXCEPT ![idx1][idx2] = @ + 1]

\* matrix[idx1][idx2]++; matrix[idx2][idx1]++
incrementPair(m, idx1, idx2) ==
    LET once == [m EXCEPT ![idx1][idx2] = @ + 1]
    IN  [once EXCEPT ![idx2][idx1] = @ + 1]

\* Pair loop over i < j of one order's distinct categories, from pair (i, j) on
RECURSIVE countPairs(_, _, _, _, _)
countPairs(m, orderCategories, ids, i, j) ==
    IF i > Len(orderCategories) THEN m
    ELSE IF j > Len(orderCategories)
    THEN countPairs(m, orderCategories, ids, i + 1, i + 2)
    ELSE LET idx1 == categoryIndex(ids, orderCategories[i])
             idx2 == categoryIndex(ids, orderCategories[j])
             next == IF idx1 # 0 /\ idx2 # 0
                     THEN incrementPair(m, idx1, idx2)
                     ELSE m
         IN  countPairs(next, orderCategories, ids, i, j + 1)

\* The loop over the orders, from the first order on
RECURSIVE countAllOrders(_, _, _, _)
countAllOrders(m, counts, os, ids) ==
    IF os = << >> THEN [matrix |-> m, orderCounts |-> counts]
    ELSE LET orderCategories == orderCategoriesOf(Head(os))
         IN  countAllOrders(countPairs(m, orderCategories, ids, 1, 2),
                            countCategories(counts, orderCategories),
                            Tail(os), ids)

\* calculateCoOrderMatrix(orders, categories) as one function
calculateCoOrderMatrix(os, ids) ==
    LET counted == countAllOrders(zeroMatrix(Len(ids)), zeroCounts(ids), os, ids)
    IN  [category |-> ids,
         matrix |-> counted.matrix,
         totalOrders |-> Len(os),
         orderCounts |-> counted.orderCounts]

----------------------------------------------------------------------------
(* Merchant level: lift calculator *)

\* orderCounts.get(cat) || 0
countOrZero(counts, cat) == IF cat \in DOMAIN counts THEN counts[cat] ELSE 0

\* Variant: the co-order count is not scaled by totalOrders
liftOfPairUnscaled(co, i, j) ==
    LET coOrders == co.matrix[i][j]
        ordersA == countOrZero(co.orderCounts, co.category[i])
        ordersB == countOrZero(co.orderCounts, co.category[j])
    IN  IF ordersA = 0 \/ ordersB = 0 THEN Zero
        ELSE Rat(coOrders, ordersA * ordersB)

\* Variant: add-one smoothing of the co-order count
liftOfPairSmoothed(co, i, j) ==
    LET coOrders == co.matrix[i][j]
        ordersA == countOrZero(co.orderCounts, co.category[i])
        ordersB == countOrZero(co.orderCounts, co.category[j])
    IN  IF ordersA = 0 \/ ordersB = 0 THEN Zero
        ELSE Rat(coOrders * co.totalOrders + 1, ordersA * ordersB)

\* The value the loop over i < j stores at [i][j] and [j][i]
liftOfPair(co, i, j) ==
    LET coOrders == co.matrix[i][j]
        ordersA == countOrZero(co.orderCounts, co.category[i])
        ordersB == countOrZero(co.orderCounts, co.category[j])
    IN  IF ordersA = 0 \/ ordersB = 0 THEN Zero
        ELSE Rat(coOrders * co.totalOrders, ordersA * ordersB)

\* Variant: the mirrored cell liftMatrix[j][i] is not written
liftCellUpperOnly(co, i, j) ==
    IF i < j THEN liftOfPair(co, i, j) ELSE Zero

\* Cell [i][j] of the finished lift matrix: pairs are visited with the
\* smaller index first, the diagonal keeps its initial 0
liftCell(co, i, j) ==
    IF i = j THEN Zero
    ELSE IF i < j THEN liftOfPair(co, i, j) ELSE liftOfPair(co, j, i)

calculateLiftMatrix(co) ==
    LET n == Len(co.category)
    IN  [category |-> co.category,
         matrix |-> [i \in 1..n |-> [j \in 1..n |-> liftCell(co, i, j)]]]

----------------------------------------------------------------------------
(* Utilities: percentile and P5-P95 normalisation *)

\* A missing array element (undefined) and the NaN it turns arithmetic into
Undefined == <<0, -1>>
NaN == <<0, 0>>

\* [...values].sort((a, b) => a - b)
insertAscending(sorted, v) ==
    LET before == {i \in 1..Len(sorted) : RLe(sorted[i], v)}
        k == Cardinality(before)
    IN  SubSeq(sorted, 1, k) \o <<v>> \o SubSeq(sorted, k + 1, Len(sorted))

RECURSIVE sortAscending(_)
sortAscending(values) ==
    IF values = << >> THEN << >>
    ELSE insertAscending(sortAscending(SubSeq(values, 1, Len(values) - 1)),
                         values[Len(values)])

\* Math.floor and Math.ceil of a rational
floor(x) == x[1] \div x[2]
ceil(x) == -((-x[1]) \div x[2])

\* sorted[k] with a 0-based index
elementAt(sorted, k) ==
    IF k >= 0 /\ k < Len(sorted) THEN sorted[k + 1] ELSE Undefined

\* Variant: the values are taken in input order, without sorting
calculatePercentileUnsorted(values, percentile) ==
    IF Len(values) = 0 THEN Zero
    ELSE LET sorted == values
             index == RMul(RDiv(percentile, Rat(100, 1)),
                           Rat(Len(sorted) - 1, 1))
             lower == floor(index)
             upper == ceil(index)
         IN  IF lower = upper THEN elementAt(sorted, lower)
             ELSE LET fraction == RSub(index, Rat(lower, 1))
                      lo == elementAt(sorted, lower)
                      hi == elementAt(sorted, upper)
                  IN  IF lo = Undefined \/ hi = Undefined THEN NaN
                      ELSE RAdd(lo, RMul(fraction, RSub(hi, lo)))

calculatePercentile(values, percentile) ==
    IF Len(values) = 0 THEN Zero
    ELSE LET sorted == sortAscending(values)
             index == RMul(RDiv(percentile, Rat(100, 1)),
                           Rat(Len(sorted) - 1, 1))
             lower == floor(index)
             upper == ceil(index)
         IN  IF lower = upper THEN elementAt(sorted, lower)
             ELSE LET fraction == RSub(index, Rat(lower, 1))
                      lo == elementAt(sorted, lower)
                      hi == elementAt(sorted, upper)
                  IN  IF lo = Undefined \/ hi = Undefined THEN NaN
                      ELSE RAdd(lo, RMul(fraction, RSub(hi, lo)))

getP5P95Bounds(values) ==
    [p5 |-> calculatePercentile(values, Rat(5, 1)),
     p95 |-> calculatePercentile(values, Rat(95, 1))]

\* Variant: the two bounds are composed the other way round
\* (Math.min(min, Math.max(max, value)))
clampSwapped(value, min, max) == RMin(min, RMax(max, value))

clamp(value, min, max) == RMax(min, RMin(max, value))

normalizeToRange(value, min, max) ==
    IF max = min THEN Zero
    ELSE LET clamped == clamp(value, min, max)
         IN  RDiv(RSub(clamped, min), RSub(max, min))

\* Variant: linear rescaling without clamping
normalizeP5P95Unclamped(value, p5, p95) ==
    IF p95 = p5 THEN Zero
    ELSE RDiv(RSub(value, p5), RSub(p95, p5))

normalizeP5P95(value, p5, p95) ==
    IF p95 = p5 THEN Zero
    ELSE LET clampedValue == clamp(value, p5, p95)
         IN  normalizeToRange(clampedValue, p5, p95)

\* Strictly positive values of the upper triangle, row by row
RECURSIVE extractFrom(_, _, _)
extractFrom(m, i, j) ==
    IF i > Len(m) THEN << >>
    ELSE IF j > Len(m[i]) THEN extractFrom(m, i + 1, i + 2)
    ELSE IF RLt(Zero, m[i][j]) THEN <<m[i][j]>> \o extractFrom(m, i, j + 1)
    ELSE extractFrom(m, i, j + 1)

extractMatrixValues(m) == extractFrom(m, 1, 2)

\* Variant: the diagonal is normalised like every other cell
normalizeMatrixP5P95KeepDiagonal(m, p5, p95) ==
    LET values == extractMatrixValues(m)
        bounds == [p5 |-> IF p5 = << >> THEN calculatePercentile(values, Rat(5, 1))
                          ELSE p5[1],
                   p95 |-> IF p95 = << >> THEN calculatePercentile(values, Rat(95, 1))
                           ELSE p95[1]]
    IN  [normalizedMatrix |->
             [i \in 1..Len(m) |->
                 [j \in 1..Len(m[i]) |->
                     normalizeP5P95(m[i][j], bounds.p5, bounds.p95)]],
         p5 |-> bounds.p5,
         p95 |-> bounds.p95]

\* p5 and p95 are << >> when the caller leaves them undefined
normalizeMatrixP5P95(m, p5, p95) ==
    LET values == extractMatrixValues(m)
        bounds == [p5 |-> IF p5 = << >> THEN calculatePercentile(values, Rat(5, 1))
                          ELSE p5[1],
                   p95 |-> IF p95 = << >> THEN calculatePercentile(values, Rat(95, 1))
                           ELSE p95[1]]
    IN  [normalizedMatrix |->
             [i \in 1..Len(m) |->
                 [j \in 1..Len(m[i]) |->
                     IF i = j THEN Zero
                     ELSE normalizeP5P95(m[i][j], bounds.p5, bounds.p95)]],
         p5 |-> bounds.p5,
         p95 |-> bounds.p95]

----------------------------------------------------------------------------
(* Merchant level: normaliser *)

\* The counts of a co-orders matrix as JavaScript numbers
numberMatrix(m) == [i \in 1..Len(m) |-> [j \in 1..Len(m[i]) |-> Rat(m[i][j], 1)]]

normalizeLiftMatrix(lift, p5, p95) ==
    LET normalized == normalizeMatrixP5P95(lift.matrix, p5, p95)
    IN  [categories |-> lift.category,
         matrix |-> normalized.normalizedMatrix,
         p5 |-> normalized.p5,
         p95 |-> normalized.p95]

normalizeCoOrdersMatrix(co, p5, p95) ==
    LET normalized == normalizeMatrixP5P95(numberMatrix(co.matrix), p5, p95)
    IN  [categories |-> co.category,
         matrix |-> normalized.normalizedMatrix,
         p5 |-> normalized.p5,
         p95 |-> normalized.p95]

getLiftBounds(lift) == getP5P95Bounds(extractMatrixValues(lift.matrix))

getCoOrdersBounds(co) == getP5P95Bounds(extractMatrixValues(numberMatrix(co.matrix)))

----------------------------------------------------------------------------
(* Merchant level: CoAffinity matrix *)

LIFT_WEIGHT == Rat(7, 10)
CO_ORDERS_WEIGHT == Rat(3, 10)

\* row[j] of a row that exists: undefined past the end of the row
cellAt(m, i, j) == IF j <= Len(m[i]) THEN m[i][j] ELSE Undefined

\* weight * cell: NaN for a cell that is undefined or NaN
weighted(weight, cell) == IF cell[2] <= 0 THEN NaN ELSE RMul(weight, cell)

\* x + y: NaN when either is NaN
sumOf(x, y) == IF x[2] <= 0 \/ y[2] <= 0 THEN NaN ELSE RAdd(x, y)

\* matrix[i] is undefined for a row index past the end of either matrix, and
\* reading [j] of it throws a TypeError; no row is read when n < 2
readsMissingRow(normLift, normCoOrders) ==
    LET n == Len(normLift.categories)
    IN  n >= 2 /\ (Len(normLift.matrix) < n \/ Len(normCoOrders.matrix) < n)

\* Variant: the two weights are exchanged
calculateCoAffinityMatrixSwapped(normLift, normCoOrders) ==
    LET n == Len(normLift.categories)
    IN  [categories |-> normLift.categories,
         matrix |->
             [i \in 1..n |->
                 [j \in 1..n |->
                     IF i = j THEN Zero
                     ELSE sumOf(weighted(CO_ORDERS_WEIGHT, cellAt(normLift.matrix, i, j)),
                                weighted(LIFT_WEIGHT, cellAt(normCoOrders.matrix, i, j)))]]]

\* The value returned when no TypeError is thrown
calculateCoAffinityMatrix(normLift, normCoOrders) ==
    LET n == Len(normLift.categories)
    IN  [categories |-> normLift.categories,
         matrix |->
             [i \in 1..n |->
                 [j \in 1..n |->
                     IF i = j THEN Zero
                     ELSE sumOf(weighted(LIFT_WEIGHT, cellAt(normLift.matrix, i, j)),
                                weighted(CO_ORDERS_WEIGHT,
                                         cellAt(normCoOrders.matrix, i, j)))]]]

----------------------------------------------------------------------------
(* Merchant level: buildCoAffinityFromOrders, step by step *)

\* calculateCoOrderMatrix: one iteration of for (const order of orders)
countOrder ==
    /\ pc = "coOrders"
    /\ processed < Len(orders)
    /\ LET orderCategories == orderCategoriesOf(orders[processed + 1])
       IN  /\ orderCounts' = countCategories(orderCounts, orderCategories)
           /\ matrix' = countPairs(matrix, orderCategories, categoryIds, 1, 2)
    /\ processed' = processed + 1
    /\ UNCHANGED <<pc, orders, categoryIds, coOrdersMatrix, liftMatrix,
                   normalizedLift, normalizedCoOrders, stats, coAffinityMatrix,
                   batchVars, callVars, scoringVars>>

\* calculateCoOrderMatrix: return
returnCoOrderMatrix ==
    /\ pc = "coOrders"
    /\ processed = Len(orders)
    /\ coOrdersMatrix' = <<[category |-> categoryIds,
                            matrix |-> matrix,
                            totalOrders |-> Len(orders),
                            orderCounts |-> orderCounts]>>
    /\ pc' = "lift"
    /\ UNCHANGED <<orders, categoryIds, matrix, orderCounts, processed,
                   liftMatrix, normalizedLift, normalizedCoOrders, stats,
                   coAffinityMatrix, batchVars, callVars, scoringVars>>

\* Step 2: calculateLiftMatrix(coOrdersMatrix)
calculateLift ==
    /\ pc = "lift"
    /\ liftMatrix' = <<calculateLiftMatrix(coOrdersMatrix[1])>>
    /\ pc' = "normalize"
    /\ UNCHANGED <<orders, categoryIds, matrix, orderCounts, processed,
                   coOrdersMatrix, normalizedLift, normalizedCoOrders, stats,
                   coAffinityMatrix, batchVars, callVars, scoringVars>>

\* Step 3: bounds of both matrices, then both normalisations
normalizeMatrices ==
    /\ pc = "normalize"
    /\ LET liftBounds == getLiftBounds(liftMatrix[1])
           coOrdersBounds == getCoOrdersBounds(coOrdersMatrix[1])
       IN  /\ normalizedLift' =
                  <<normalizeLiftMatrix(liftMatrix[1], <<liftBounds.p5>>,
                                        <<liftBounds.p95>>)>>
           /\ normalizedCoOrders' =
                  <<normalizeCoOrdersMatrix(coOrdersMatrix[1],
                                            <<coOrdersBounds.p5>>,
                                            <<coOrdersBounds.p95>>)>>
    /\ pc' = "coAffinity"
    /\ UNCHANGED <<orders, categoryIds, matrix, orderCounts, processed,
                   coOrdersMatrix, liftMatrix, stats, coAffinityMatrix,
                   batchVars, callVars, scoringVars>>

\* Step 4: calculateCoAffinityMatrix, the stats object, return
composeCoAffinity ==
    /\ pc = "coAffinity"
    /\ coAffinityMatrix' =
           calculateCoAffinityMatrix(normalizedLift[1], normalizedCoOrders[1])
    /\ stats' = <<[liftP5 |-> normalizedLift[1].p5,
                   liftP95 |-> normalizedLift[1].p95,
                   coOrdersP5 |-> normalizedCoOrders[1].p5,
                   coOrdersP95 |-> normalizedCoOrders[1].p95,
                   totalOrders |-> coOrdersMatrix[1].totalOrders,
                   categoryOrderCounts |-> coOrdersMatrix[1].orderCounts]>>
    /\ pc' = "built"
    /\ UNCHANGED <<orders, categoryIds, matrix, orderCounts, processed,
                   coOrdersMatrix, liftMatrix, normalizedLift,
                   normalizedCoOrders, batchVars, callVars, scoringVars>>

----------------------------------------------------------------------------
(* Inputs of the batch run *)

CustomerIds == {"c1", "c2"}
BatchCategories == {"a", "g"}
OrderDates == {20, 30}
ActiveDaysSet == {90, 120}
ReferenceDates == {120}
GoalCategories == {"g", "x"}

\* OrderItem[]: the item at position i has quantity i
itemsOf(cats) == [i \in 1..Len(cats) |-> [categoryId |-> cats[i], quantity |-> i]]

OrdersOver(ids, dates, cats, maxItems) ==
    {[customerId |-> c, createdAt |-> t, items |-> itemsOf(cs)] :
        c \in ids, t \in dates, cs \in SeqsUpTo(cats, maxItems)}

\* Customer lists: every ordering of every subset of the customer ids
CustomerLists ==
    {s \in SeqsUpTo(CustomerIds, Cardinality(CustomerIds)) :
        \A i, j \in 1..Len(s) : i # j => s[i] # s[j]}

\* A CoAffinity matrix as loaded from coaffinity-matrix.json
LoadedCoAffinity ==
    [categories |-> <<"a", "b", "g">>,
     matrix |-> <<<<Zero, Rat(1, 4), Rat(1, 2)>>,
                  <<Rat(1, 4), Zero, One>>,
                  <<Rat(1, 2), One, Zero>>>>]

\* No function is called on its own
CallIdle ==
    /\ args = << >>
    /\ returned = << >>

\* No purchase history and no statistics have been built
ScoringIdle ==
    /\ purchaseHistory = << >>
    /\ affinityStats = << >>

\* The matrix pipeline is not running
MatrixIdle ==
    /\ categoryIds = << >>
    /\ matrix = << >>
    /\ orderCounts = << >>
    /\ coOrdersMatrix = << >>
    /\ liftMatrix = << >>
    /\ normalizedLift = << >>
    /\ normalizedCoOrders = << >>
    /\ stats = << >>

Init ==
    /\ pc = "start"
    /\ customers \in CustomerLists
    /\ orders \in SeqsUpTo(OrdersOver(CustomerIds, OrderDates, BatchCategories,
                                      MaxBatchItems),
                           MaxBatchOrders)
    /\ coAffinityMatrix = LoadedCoAffinity
    /\ goalCategory \in GoalCategories
    /\ activeDays \in ActiveDaysSet
    /\ referenceDate \in ReferenceDates
    /\ processed = 0
    /\ results = << >>
    /\ skipped = << >>
    /\ error = << >>
    /\ ScoringIdle
    /\ MatrixIdle
    /\ CallIdle

Next ==
    \/ validateGoalCategory
    \/ processNextCustomer
    \/ returnResults

Spec == Init /\ [][Next]_vars

----------------------------------------------------------------------------
(* Inputs of the matrix pipeline *)

MaxOrders == 2
MaxItems == 2

MatrixCategoryLists == {<<"a", "b", "x">>, <<"b", "a">>}
MatrixItemCategories == {"a", "b", "x"}

\* An order list from the category lists of its orders' items
ordersWith(itemLists) ==
    [k \in 1..Len(itemLists) |->
        [customerId |-> "c1", createdAt |-> 20, items |-> itemsOf(itemLists[k])]]

\* Larger order lists with unequal lifts and counts
SampleOrderLists ==
    {ordersWith(<<<<"a", "b">>, <<"a", "x">>, <<"b">>>>),
     ordersWith(<<<<"a", "b", "x">>, <<"a", "b">>, <<"a">>, <<"x">>>>),
     ordersWith(<<<<"a", "a", "b">>, <<"b", "x", "b">>, <<"x">>, <<"b", "a">>>>)}

\* The batch run is not running
BatchIdle ==
    /\ customers = << >>
    /\ goalCategory = ""
    /\ activeDays = 0
    /\ referenceDate = 0
    /\ results = << >>
    /\ skipped = << >>
    /\ error = << >>
    /\ ScoringIdle

\* No CoAffinity matrix has been built yet
NotBuilt == [categories |-> << >>, matrix |-> << >>]

InitMatrix ==
    /\ pc = "coOrders"
    /\ categoryIds \in MatrixCategoryLists
    /\ orders \in SeqsUpTo(OrdersOver({"c1"}, {20}, MatrixItemCategories, MaxItems),
                           MaxOrders) \cup SampleOrderLists
    /\ matrix = zeroMatrix(Len(categoryIds))
    /\ orderCounts = zeroCounts(categoryIds)
    /\ processed = 0
    /\ coOrdersMatrix = << >>
    /\ liftMatrix = << >>
    /\ normalizedLift = << >>
    /\ normalizedCoOrders = << >>
    /\ stats = << >>
    /\ coAffinityMatrix = NotBuilt
    /\ BatchIdle
    /\ CallIdle

NextMatrix ==
    \/ countOrder
    \/ returnCoOrderMatrix
    \/ calculateLift
    \/ normalizeMatrices
    \/ composeCoAffinity

SpecMatrix == InitMatrix /\ [][NextMatrix]_vars

----------------------------------------------------------------------------
(* Inputs of calculateLiftMatrix on its own *)

MaxLiftOrders == 10

LiftCategories == <<"a", "b">>

\* The co-order matrices of two categories that some list of at most
\* MaxLiftOrders orders produces: co orders hold both categories, ordersA - co
\* only the first, ordersB - co only the second
LiftInputs ==
    {[category |-> LiftCategories,
      matrix |-> <<<<0, q[4]>>, <<q[4], 0>>>>,
      totalOrders |-> q[1],
      orderCounts |-> [c \in {"a", "b"} |-> IF c = "a" THEN q[2] ELSE q[3]]] :
        q \in {r \in (0..MaxLiftOrders) \X (0..MaxLiftOrders)
                       \X (0..MaxLiftOrders) \X (0..MaxLiftOrders) :
                  /\ r[4] <= r[2]
                  /\ r[4] <= r[3]
                  /\ r[2] + r[3] - r[4] <= r[1]}}

InitLift ==
    /\ pc = "lift"
    /\ coOrdersMatrix \in {<<co>> : co \in LiftInputs}
    /\ categoryIds = LiftCategories
    /\ orders = << >>
    /\ matrix = coOrdersMatrix[1].matrix
    /\ orderCounts = coOrdersMatrix[1].orderCounts
    /\ processed = 0
    /\ liftMatrix = << >>
    /\ normalizedLift = << >>
    /\ normalizedCoOrders = << >>
    /\ stats = << >>
    /\ coAffinityMatrix = NotBuilt
    /\ BatchIdle
    /\ CallIdle

NextLift == calculateLift

SpecLift == InitLift /\ [][NextLift]_vars

----------------------------------------------------------------------------
(* The batch run, read off the inputs *)

\* Indices of the orders of customer c in the order list
OrdersOf(c) == {i \in 1..Len(orders) : orders[i].customerId = c}

\* Customer c has an order with an item of category cat
Bought(c, cat) ==
    \E i \in OrdersOf(c) :
        \E k \in 1..Len(orders[i].items) : orders[i].items[k].categoryId = cat

\* Greatest createdAt among the orders of c (c has orders)
LastOrderDate(c) ==
    CHOOSE t \in {orders[i].createdAt : i \in OrdersOf(c)} :
        \A i \in OrdersOf(c) : orders[i].createdAt <= t

ResultIds == {results[i].customerId : i \in 1..Len(results)}
SkippedIds == {skipped[i].customerId : i \in 1..Len(skipped)}
ProcessedIds == {customers[k] : k \in 1..processed}
GoalIsValid == \E i \in 1..Len(coAffinityMatrix.categories) :
                   coAffinityMatrix.categories[i] = goalCategory

\* C1: with a valid goal category every processed customer has exactly one
\* output entry, a result or a skip record, never both and never neither, so
\* |results| + |skipped| = number processed; the run never throws and it
\* returns only after the whole customer list was processed, skips included.
C1_EachCustomerOneOutput ==
    GoalIsValid /\ pc # "start" =>
        /\ pc \in {"loop", "done"}
        /\ Len(results) + Len(skipped) = processed
        /\ ResultIds \cup SkippedIds = ProcessedIds
        /\ ResultIds \cap SkippedIds = {}
        /\ Cardinality(ResultIds) = Len(results)
        /\ Cardinality(SkippedIds) = Len(skipped)
        /\ pc = "done" => processed = Len(customers)

\* A finished run whose first customer was skipped and whose second was scored
C1_Witness ==
    /\ pc = "done"
    /\ Len(customers) = 2
    /\ Len(skipped) = 1 /\ skipped[1].customerId = customers[1]
    /\ Len(results) = 1 /\ results[1].customerId = customers[2]

\* C2: a goal category outside the matrix's category list makes the run throw
\* an error naming the goal category and the valid categories, before any
\* customer is examined: no result, no skip record, no loop iteration.
C2_InvalidGoalAborts ==
    /\ ~GoalIsValid /\ pc # "start" =>
           /\ pc = "thrown"
           /\ error = <<[goalCategory |-> goalCategory,
                         availableCategories |-> coAffinityMatrix.categories]>>
           /\ results = << >>
           /\ skipped = << >>
           /\ processed = 0
    /\ pc = "thrown" => ~GoalIsValid

\* The run has thrown although customers with orders were waiting
C2_Witness ==
    /\ pc = "thrown"
    /\ Len(customers) = 2
    /\ \E c \in CustomerIds : OrdersOf(c) # {}

\* C3: a customer with an order containing the goal category is ineligible for
\* every activeDays and reference date, so no result belongs to such a customer
\* and no seed weight of a result is for the goal category.
C3_GoalBuyerNeverEligible ==
    /\ \A c \in CustomerIds :
           Bought(c, goalCategory) =>
               LET h == buildCustomerPurchaseHistory(c, orders)
               IN  /\ h # << >>
                   /\ \A days \in ActiveDaysSet \cup {0, 1000} :
                          \A ref \in ReferenceDates \cup OrderDates :
                              ~isCustomerEligible(h[1], goalCategory, days, ref)
    /\ \A i \in 1..Len(results) :
           /\ ~Bought(results[i].customerId, goalCategory)
           /\ \A k \in 1..Len(results[i].seedWeights) :
                  results[i].seedWeights[k].categoryId # goalCategory

\* A finished run that skipped a recently active goal buyer and scored another
\* customer
C3_Witness ==
    /\ pc = "done"
    /\ \E c \in SkippedIds :
           /\ Bought(c, goalCategory)
           /\ LastOrderDate(c) >= referenceDate - activeDays
    /\ Len(results) = 1
    /\ Len(results[1].seedWeights) > 0
\* Categories of the history h, as a set
HistoryCategories(h) == {h.categories[i].categoryId : i \in 1..Len(h.categories)}

\* C4: isCustomerEligible is true exactly when the goal category is absent
\* from the history and lastOrderDate >= referenceDate - activeDays, boundary
\* included; a last order 100 days before the reference date is ineligible
\* with activeDays 90 and eligible with activeDays 120. The batch run scores
\* exactly the customers for which it is true.
C4_EligibleIffNewAndActive ==
    \A c \in CustomerIds :
        LET h == buildCustomerPurchaseHistory(c, orders)
        IN  h # << >> =>
            /\ \A days \in ActiveDaysSet \cup {0, 100} :
                   \A ref \in ReferenceDates \cup {h[1].lastOrderDate + days} :
                       isCustomerEligible(h[1], goalCategory, days, ref)
                           <=> /\ goalCategory \notin HistoryCategories(h[1])
                               /\ h[1].lastOrderDate >= ref - days
            /\ (/\ goalCategory \notin HistoryCategories(h[1])
                /\ h[1].lastOrderDate = referenceDate - 100)
                   => /\ ~isCustomerEligible(h[1], goalCategory, 90, referenceDate)
                      /\ isCustomerEligible(h[1], goalCategory, 120, referenceDate)
            /\ (GoalIsValid /\ c \in ProcessedIds) =>
                   (c \in ResultIds <=>
                       /\ goalCategory \notin HistoryCategories(h[1])
                       /\ h[1].lastOrderDate >= referenceDate - activeDays)

\* A finished run with activeDays 120 that scored a customer whose last order
\* was 100 days before the reference date
C4_Witness ==
    /\ pc = "done"
    /\ activeDays = 120
    /\ \E c \in ResultIds : LastOrderDate(c) = referenceDate - 100

\* C5: every skip record carries the reason of its cause: "No orders" exactly
\* when the customer has no order; "Already purchased goal category" exactly
\* when the customer has orders and one contains the goal category, inactive
\* or not; "Not active in window" exactly when the customer has orders, none
\* with the goal category, and the last one is older than
\* referenceDate - activeDays.
C5_SkipReasonMatchesCause ==
    \A i \in 1..Len(skipped) :
        LET c == skipped[i].customerId
            reason == skipped[i].reason
        IN  /\ reason \in {"No orders", "Already purchased goal category",
                           "Not active in window"}
            /\ reason = "No orders" <=> OrdersOf(c) = {}
            /\ reason = "Already purchased goal category"
                   <=> OrdersOf(c) # {} /\ Bought(c, goalCategory)
            /\ reason = "Not active in window"
                   <=> /\ OrdersOf(c) # {}
                       /\ ~Bought(c, goalCategory)
                       /\ LastOrderDate(c) < referenceDate - activeDays

\* A goal buyer who is also outside the window was skipped as a goal buyer,
\* next to a customer without orders
C5_Witness ==
    /\ pc = "done"
    /\ \E i \in 1..Len(skipped) :
           /\ skipped[i].reason = "Already purchased goal category"
           /\ LastOrderDate(skipped[i].customerId) < referenceDate - activeDays
    /\ \E i \in 1..Len(skipped) : skipped[i].reason = "No orders"

----------------------------------------------------------------------------
(* The matrix pipeline, read off the order list *)

\* The order has at least one item of the category
OrderHas(order, cat) ==
    \E k \in 1..Len(order.items) : order.items[k].categoryId = cat

\* The number of orders with an item of each of the two categories
OrdersWithBoth(cat1, cat2) ==
    Cardinality({k \in 1..Len(orders) :
                    OrderHas(orders[k], cat1) /\ OrderHas(orders[k], cat2)})

\* The number of orders with an item of the category
OrdersWith(cat) == Cardinality({k \in 1..Len(orders) : OrderHas(orders[k], cat)})

KnownCategories == {categoryIds[i] : i \in 1..Len(categoryIds)}

\* The order has two items of category cat1 and an item of category cat2
RepeatsCategory(order, cat1, cat2) ==
    /\ \E k, l \in 1..Len(order.items) :
           /\ k # l
           /\ order.items[k].categoryId = cat1
           /\ order.items[l].categoryId = cat1
    /\ OrderHas(order, cat2)

IsNumber(x) == x[2] > 0

\* A square matrix of numbers, equal to its transpose, with a zero diagonal
SymmetricZeroDiagonal(m, zero) ==
    \A i, j \in 1..Len(m) :
        /\ Len(m[i]) = Len(m)
        /\ m[i][j] = m[j][i]
        /\ m[i][i] = zero

AllNumbers(m) == \A i, j \in 1..Len(m) : IsNumber(m[i][j])

\* C6: the co-occurrence matrix that calculateCoOrderMatrix returns and the
\* lift matrix, the two normalised matrices and the CoAffinity matrix that
\* buildCoAffinityFromOrders derives from it are each symmetric with a zero
\* diagonal (and hold numbers, never NaN).
C6_MatricesSymmetricZeroDiagonal ==
    /\ coOrdersMatrix # << >>
           => SymmetricZeroDiagonal(coOrdersMatrix[1].matrix, 0)
    /\ liftMatrix # << >>
           => /\ SymmetricZeroDiagonal(liftMatrix[1].matrix, Zero)
              /\ AllNumbers(liftMatrix[1].matrix)
    /\ normalizedLift # << >>
           => /\ SymmetricZeroDiagonal(normalizedLift[1].matrix, Zero)
              /\ AllNumbers(normalizedLift[1].matrix)
    /\ normalizedCoOrders # << >>
           => /\ SymmetricZeroDiagonal(normalizedCoOrders[1].matrix, Zero)
              /\ AllNumbers(normalizedCoOrders[1].matrix)
    /\ pc = "built"
           => /\ SymmetricZeroDiagonal(coAffinityMatrix.matrix, Zero)
              /\ AllNumbers(coAffinityMatrix.matrix)

\* The pipeline has finished on three categories with unequal lifts, and
\* every one of the five matrices has a non-zero cell
C6_Witness ==
    /\ pc = "built"
    /\ Len(categoryIds) = 3
    /\ \E i, j, k, l \in 1..3 :
           /\ liftMatrix[1].matrix[i][j] # Zero
           /\ liftMatrix[1].matrix[k][l] # Zero
           /\ liftMatrix[1].matrix[i][j] # liftMatrix[1].matrix[k][l]
    /\ \E i, j \in 1..3 :
           /\ coOrdersMatrix[1].matrix[i][j] # 0
           /\ normalizedLift[1].matrix[i][j] # Zero
           /\ normalizedCoOrders[1].matrix[i][j] # Zero
           /\ coAffinityMatrix.matrix[i][j] # Zero

\* C7: for two distinct known categories, the returned cell is the number of
\* orders that hold an item of each; quantities and repeated items of one
\* category in an order count once.
C7_CellCountsOrdersWithBoth ==
    coOrdersMatrix # << >> =>
        \A i, j \in 1..Len(categoryIds) :
            categoryIds[i] # categoryIds[j] =>
                coOrdersMatrix[1].matrix[i][j]
                    = OrdersWithBoth(categoryIds[i], categoryIds[j])

\* The matrix was returned for orders of which one repeats a known category
\* next to another known category, and two orders hold that pair
C7_Witness ==
    /\ coOrdersMatrix # << >>
    /\ \E i, j \in 1..Len(categoryIds) :
           /\ i # j
           /\ \E k \in 1..Len(orders) :
                  RepeatsCategory(orders[k], categoryIds[i], categoryIds[j])
           /\ coOrdersMatrix[1].matrix[i][j] = 2

\* C8: for every known category, the returned orderCounts entry is the
\* number of orders that hold at least one item of the category.
C8_OrderCountsCountOrders ==
    coOrdersMatrix # << >> =>
        \A c \in KnownCategories : coOrdersMatrix[1].orderCounts[c] = OrdersWith(c)

\* The counts were returned for orders of which one holds a known category in
\* two items, and that category is in exactly one order
C8_Witness ==
    /\ coOrdersMatrix # << >>
    /\ \E c \in KnownCategories :
           /\ \E k \in 1..Len(orders) : RepeatsCategory(orders[k], c, c)
           /\ coOrdersMatrix[1].orderCounts[c] = 1

\* The items of known categories, in order
RECURSIVE knownItems(_, _)
knownItems(items, known) ==
    IF items = << >> THEN << >>
    ELSE (IF Head(items).categoryId \in known THEN <<Head(items)>> ELSE << >>)
             \o knownItems(Tail(items), known)

\* The order list with the items of unknown categories removed
WithoutUnknownItems ==
    [k \in 1..Len(orders) |->
        [orders[k] EXCEPT !.items = knownItems(@, KnownCategories)]]

HasUnknownItem(order) ==
    \E k \in 1..Len(order.items) : order.items[k].categoryId \notin KnownCategories

\* C9: items of unknown categories add no key to orderCounts and change no
\* cell and no count: matrix and counts are those of the order list without
\* these items, and totalOrders is the length of the order list.
C9_UnknownCategoriesIgnored ==
    coOrdersMatrix # << >> =>
        LET cleaned == calculateCoOrderMatrix(WithoutUnknownItems, categoryIds)
        IN  /\ DOMAIN coOrdersMatrix[1].orderCounts = KnownCategories
            /\ coOrdersMatrix[1].matrix = cleaned.matrix
            /\ coOrdersMatrix[1].orderCounts = cleaned.orderCounts
            /\ coOrdersMatrix[1].totalOrders = Len(orders)
            /\ coOrdersMatrix[1].category = categoryIds

\* The matrix was returned for two orders, one of an unknown category alone
\* and one of an unknown category next to a known one
C9_Witness ==
    /\ coOrdersMatrix # << >>
    /\ Len(orders) = 2
    /\ \E k \in 1..2 : \A n \in 1..Len(orders[k].items) :
           orders[k].items[n].categoryId \notin KnownCategories
    /\ \E k \in 1..2 :
           /\ Len(orders[k].items) > 0
           /\ HasUnknownItem(orders[k])
           /\ \E c \in KnownCategories :
                  /\ OrderHas(orders[k], c)
                  /\ coOrdersMatrix[1].orderCounts[c] = 1
    /\ \A k \in 1..2 : Len(orders[k].items) > 0
    /\ coOrdersMatrix[1].totalOrders = 2

----------------------------------------------------------------------------
(* Lift under scaling of the counts *)

MaxScale == 3

\* Every co-occurrence count, every order count and totalOrders times k
scaleCoOrders(co, k) ==
    [category |-> co.category,
     matrix |-> [i \in 1..Len(co.matrix) |->
                    [j \in 1..Len(co.matrix[i]) |-> k * co.matrix[i][j]]],
     totalOrders |-> k * co.totalOrders,
     orderCounts |-> [c \in DOMAIN co.orderCounts |-> k * co.orderCounts[c]]]

\* C11: lift is scale-invariant: multiplying every co-occurrence count, every
\* per-category order count and totalOrders by a positive integer k leaves
\* every cell of the matrix returned by calculateLiftMatrix unchanged.
C11_LiftScaleInvariant ==
    liftMatrix # << >> =>
        \A k \in 1..MaxScale :
            calculateLiftMatrix(scaleCoOrders(coOrdersMatrix[1], k)).matrix
                = liftMatrix[1].matrix

\* A lift that is neither 0 nor 1 was computed, and the counts times
\* MaxScale are a different co-order matrix
C11_Witness ==
    /\ liftMatrix # << >>
    /\ liftMatrix[1].matrix[1][2] \notin {Zero, One}
    /\ coOrdersMatrix[1].totalOrders > 1
    /\ scaleCoOrders(coOrdersMatrix[1], MaxScale) # coOrdersMatrix[1]
    /\ scaleCoOrders(coOrdersMatrix[1], MaxScale).matrix[1][2]
           = MaxScale * coOrdersMatrix[1].matrix[1][2]

----------------------------------------------------------------------------
(* The percentile utilities, each called on its own *)

MaxHalves == 4
MaxSample == 3

\* The numbers -1/2, 0, 1/2, ..., MaxHalves/2
SampleValues == {Rat(n, 2) : n \in -1..MaxHalves}

\* The percentile argument, also outside 0..100
Percentiles == {Rat(p, 1) : p \in {-50, 0, 5, 50, 95, 100, 150}}

\* A bound the caller passes (a number) or leaves undefined
OptionalBounds == {<< >>} \cup {<<v>> : v \in {Zero, Rat(1, 2), Rat(2, 1)}}

\* 3 x 3 matrices from their upper triangle, mirrored or not, with a zero or
\* a non-zero diagonal
SampleMatrices ==
    {<<<<d, u[1], u[2]>>,
       <<(IF mirrored THEN u[1] ELSE One), d, u[3]>>,
       <<(IF mirrored THEN u[2] ELSE Zero), (IF mirrored THEN u[3] ELSE u[1]), d>>>> :
        u \in SampleValues \X SampleValues \X SampleValues,
        d \in {Zero, Rat(2, 1)},
        mirrored \in BOOLEAN}

\* The call has not returned yet
Calling(fn) == pc = fn /\ returned = << >> /\ error = << >>

\* The call has returned
Returned(fn) == pc = fn /\ returned # << >>

\* calculatePercentile(values, percentile); [...values] leaves values alone
callCalculatePercentile ==
    /\ Calling("calculatePercentile")
    /\ returned' = <<calculatePercentile(args.values, args.percentile)>>
    /\ UNCHANGED <<pc, args, orders, processed, coAffinityMatrix, batchVars,
                   matrixVars, scoringVars>>

\* normalizeP5P95(value, p5, p95)
callNormalizeP5P95 ==
    /\ Calling("normalizeP5P95")
    /\ returned' = <<normalizeP5P95(args.value, args.p5, args.p95)>>
    /\ UNCHANGED <<pc, args, orders, processed, coAffinityMatrix, batchVars,
                   matrixVars, scoringVars>>

\* normalizeMatrixP5P95(matrix, p5?, p95?)
callNormalizeMatrixP5P95 ==
    /\ Calling("normalizeMatrixP5P95")
    /\ returned' = <<normalizeMatrixP5P95(args.matrix, args.p5, args.p95)>>
    /\ UNCHANGED <<pc, args, orders, processed, coAffinityMatrix, batchVars,
                   matrixVars, scoringVars>>

\* Everything but the call is idle
OnlyCall ==
    /\ returned = << >>
    /\ orders = << >>
    /\ processed = 0
    /\ coAffinityMatrix = NotBuilt
    /\ MatrixIdle
    /\ BatchIdle

InitPercentile ==
    /\ \/ /\ pc = "calculatePercentile"
          /\ args \in [values : SeqsUpTo(SampleValues, MaxSample),
                       percentile : Percentiles]
       \/ /\ pc = "normalizeP5P95"
          /\ args \in [value : SampleValues, p5 : SampleValues, p95 : SampleValues]
       \/ /\ pc = "normalizeMatrixP5P95"
          /\ args \in [matrix : SampleMatrices, p5 : OptionalBounds,
                       p95 : OptionalBounds]
    /\ OnlyCall

NextPercentile ==
    \/ callCalculatePercentile
    \/ callNormalizeP5P95
    \/ callNormalizeMatrixP5P95

SpecPercentile == InitPercentile /\ [][NextPercentile]_vars

\* The bound normalizeMatrixP5P95 uses: the caller's, else the percentile of
\* the strictly positive upper-triangle values
BoundUsed(bound, m, percentile) ==
    IF bound = << >> THEN calculatePercentile(extractMatrixValues(m), Rat(percentile, 1))
    ELSE bound[1]

\* C12: every off-diagonal cell of the matrix normalizeMatrixP5P95 returns
\* lies in [0,1], every diagonal cell is 0 whatever the input diagonal holds,
\* and the p5 and p95 returned are the bounds that were used, computed from
\* the matrix or supplied by the caller.
C12_NormalizedCellsInUnitRange ==
    Returned("normalizeMatrixP5P95") =>
        LET m == args.matrix
            out == returned[1]
            p5 == BoundUsed(args.p5, m, 5)
            p95 == BoundUsed(args.p95, m, 95)
        IN  /\ out.p5 = p5
            /\ out.p95 = p95
            /\ Len(out.normalizedMatrix) = Len(m)
            /\ \A i, j \in 1..Len(m) :
                   LET cell == out.normalizedMatrix[i][j]
                   IN  /\ IsNumber(cell)
                       /\ i = j => cell = Zero
                       /\ i # j => /\ RLe(Zero, cell)
                                   /\ RLe(cell, One)
                                   /\ cell = normalizeP5P95(m[i][j], p5, p95)

\* A matrix with a non-zero diagonal and cells below, inside and above the
\* bounds computed from it was normalised
C12_Witness ==
    /\ Returned("normalizeMatrixP5P95")
    /\ args.p5 = << >>
    /\ args.p95 = << >>
    /\ args.matrix[1][1] # Zero
    /\ \E i, j, k, l, m, n \in 1..3 :
           /\ i # j /\ k # l /\ m # n
           /\ RLt(args.matrix[i][j], returned[1].p5)
           /\ RLt(returned[1].p95, args.matrix[k][l])
           /\ returned[1].normalizedMatrix[i][j] = Zero
           /\ returned[1].normalizedMatrix[k][l] = One
           /\ returned[1].normalizedMatrix[m][n] \notin {Zero, One}

\* C13: for P5 < P95, normalizeP5P95 maps a value equal to P5 and a value
\* below P5 to 0, a value equal to P95 and a value above P95 to 1, and a
\* value v inside the window to (v - P5) / (P95 - P5); for P95 = P5 it
\* returns 0 for every value, and the result is always a number.
C13_NormalizeP5P95Cases ==
    Returned("normalizeP5P95") =>
        LET v == args.value
            p5 == args.p5
            p95 == args.p95
            out == returned[1]
        IN  /\ IsNumber(out)
            /\ p95 = p5 => out = Zero
            /\ RLt(p5, p95) =>
                   /\ v = p5 => out = Zero
                   /\ v = p95 => out = One
                   /\ RLt(v, p5) => out = Zero
                   /\ RLt(p95, v) => out = One
                   /\ (RLe(p5, v) /\ RLe(v, p95))
                          => out = RDiv(RSub(v, p5), RSub(p95, p5))

\* A value strictly inside a window with a non-zero lower bound was
\* normalised to a number strictly between 0 and 1
C13_Witness ==
    /\ Returned("normalizeP5P95")
    /\ args.p5 # Zero
    /\ RLt(args.p5, args.value)
    /\ RLt(args.value, args.p95)
    /\ RLt(Zero, returned[1])
    /\ RLt(returned[1], One)
    /\ returned[1] = RDiv(RSub(args.value, args.p5), RSub(args.p95, args.p5))

\* The least and the greatest value of a non-empty sample
SampleMin(values) ==
    CHOOSE v \in {values[i] : i \in 1..Len(values)} :
        \A i \in 1..Len(values) : RLe(v, values[i])

SampleMax(values) ==
    CHOOSE v \in {values[i] : i \in 1..Len(values)} :
        \A i \in 1..Len(values) : RLe(values[i], v)

\* What calculatePercentile returned for percentiles 0 and 100 and for the
\* empty sample
PercentileEnds ==
    Returned("calculatePercentile") =>
        LET values == args.values
            out == returned[1]
        IN  /\ Len(values) = 0 => out = Zero
            /\ (Len(values) > 0 /\ args.percentile = Zero)
                   => out = SampleMin(values)
            /\ (Len(values) > 0 /\ args.percentile = Rat(100, 1))
                   => out = SampleMax(values)

\* C14: for a non-empty sample calculatePercentile(values, 0) is the minimum
\* and calculatePercentile(values, 100) the maximum of the sample, whatever
\* the order of the input values; for an empty sample it returns 0 for every
\* p; the call leaves the input array as it was.
C14_PercentileEndsAreMinMax ==
    /\ []PercentileEnds
    /\ [][pc = "calculatePercentile" => args' = args]_vars

\* The maximum of a three-value sample given in descending order, with three
\* different values, was returned for percentile 100
C14_Witness ==
    /\ Returned("calculatePercentile")
    /\ Len(args.values) = 3
    /\ RLt(args.values[2], args.values[1])
    /\ RLt(args.values[3], args.values[2])
    /\ args.percentile = Rat(100, 1)
    /\ returned[1] = args.values[1]

----------------------------------------------------------------------------
(* calculateCoAffinityMatrix called on its own *)

MaxUnitHalves == 3

\* The numbers 0, 1/2, ..., MaxUnitHalves/2: inside and outside [0,1]
UnitValues == {Rat(n, 2) : n \in 0..MaxUnitHalves}

PairCategoryLists == {<<"a", "b">>, <<"b", "a">>, <<"a", "x">>}

\* NormalizedMatrix values of two categories (any two off-diagonal cells,
\* any diagonal) and of three categories (symmetric, zero diagonal)
NormalizedMatrices ==
    {[categories |-> cats,
      matrix |-> <<<<d, u[1]>>, <<u[2], d>>>>,
      p5 |-> Zero,
      p95 |-> One] :
        cats \in PairCategoryLists, u \in UnitValues \X UnitValues,
        d \in {Zero, One}}
    \cup
    {[categories |-> <<"a", "b", "x">>,
      matrix |-> <<<<Zero, u[1], u[2]>>, <<u[1], Zero, u[3]>>, <<u[2], u[3], Zero>>>>,
      p5 |-> Zero,
      p95 |-> One] :
        u \in UnitValues \X UnitValues \X UnitValues}

\* calculateCoAffinityMatrix(normalizedLift, normalizedCoOrders)
callCalculateCoAffinityMatrix ==
    /\ Calling("calculateCoAffinityMatrix")
    /\ IF readsMissingRow(args.normalizedLift, args.normalizedCoOrders)
       THEN /\ error' = <<"TypeError: Cannot read properties of undefined">>
            /\ UNCHANGED returned
       ELSE /\ returned' = <<calculateCoAffinityMatrix(args.normalizedLift,
                                                       args.normalizedCoOrders)>>
            /\ UNCHANGED error
    /\ UNCHANGED <<pc, args, orders, processed, coAffinityMatrix, batchInputs,
                   results, skipped, matrixVars, scoringVars>>

InitCoAffinity ==
    /\ pc = "calculateCoAffinityMatrix"
    /\ args \in [normalizedLift : NormalizedMatrices,
                 normalizedCoOrders : NormalizedMatrices]
    /\ OnlyCall

NextCoAffinity == callCalculateCoAffinityMatrix

SpecCoAffinity == InitCoAffinity /\ [][NextCoAffinity]_vars

InUnitRange(x) == IsNumber(x) /\ RLe(Zero, x) /\ RLe(x, One)

AllInUnitRange(m) ==
    \A i \in 1..Len(m) : \A j \in 1..Len(m[i]) : InUnitRange(m[i][j])

\* C15: for matrices over one category list, calculateCoAffinityMatrix yields
\* 0.7 * normalizedLift[i][j] + 0.3 * normalizedCoOrders[i][j] for i # j and
\* 0 for i = j; when all cells of both inputs lie in [0,1], so does every
\* cell of the result.
C15_CoAffinityIsWeightedSum ==
    (/\ Returned("calculateCoAffinityMatrix")
     /\ args.normalizedLift.categories = args.normalizedCoOrders.categories) =>
        LET lift == args.normalizedLift.matrix
            coOrders == args.normalizedCoOrders.matrix
            out == returned[1].matrix
        IN  /\ Len(out) = Len(lift)
            /\ \A i, j \in 1..Len(lift) :
                   /\ i = j => out[i][j] = Zero
                   /\ i # j => out[i][j] = RAdd(RMul(Rat(7, 10), lift[i][j]),
                                                RMul(Rat(3, 10), coOrders[i][j]))
            /\ (AllInUnitRange(lift) /\ AllInUnitRange(coOrders))
                   => AllInUnitRange(out)

\* Two three-category matrices with cells in [0,1] and different values in
\* one cell were combined, the diagonal of the result being 0
C15_Witness ==
    /\ Returned("calculateCoAffinityMatrix")
    /\ args.normalizedLift.categories = <<"a", "b", "x">>
    /\ args.normalizedCoOrders.categories = <<"a", "b", "x">>
    /\ AllInUnitRange(args.normalizedLift.matrix)
    /\ AllInUnitRange(args.normalizedCoOrders.matrix)
    /\ args.normalizedLift.matrix[1][2] = One
    /\ args.normalizedCoOrders.matrix[1][2] = Rat(1, 2)
    /\ returned[1].matrix[1][2] = Rat(17, 20)
    /\ returned[1].matrix[2][2] = Zero

\* C16: when the category lists of normalizedLift and normalizedCoOrders
\* differ in content, length or order, calculateCoAffinityMatrix fails with
\* an error and returns no matrix.
C16_MismatchedCategoriesRejected ==
    (/\ pc = "calculateCoAffinityMatrix"
     /\ args.normalizedLift.categories # args.normalizedCoOrders.categories)
        => returned = << >>

\* A matrix was returned for lift over (a, b) and co-orders over (a, x): its
\* cell for (a, b) adds the co-orders value of (a, x)
C16_Witness ==
    /\ Returned("calculateCoAffinityMatrix")
    /\ error = << >>
    /\ args.normalizedLift.categories = <<"a", "b">>
    /\ args.normalizedCoOrders.categories = <<"a", "x">>
    /\ args.normalizedLift.matrix[1][2] = Zero
    /\ args.normalizedCoOrders.matrix[1][2] = One
    /\ returned[1].categories = <<"a", "b">>
    /\ returned[1].matrix[1][2] = Rat(3, 10)

----------------------------------------------------------------------------
(* buildCustomerPurchaseHistory called on its own *)

MaxHistoryOrders == 3

HistoryItemLists ==
    {<< >>, <<"a">>, <<"b">>, <<"a", "b">>, <<"b", "a">>, <<"a", "a">>}

\* Orders of the customer and of another one, on two dates
HistoryOrders ==
    {[customerId |-> c, createdAt |-> d, items |-> itemsOf(cats)] :
        c \in {"c1", "c2"}, d \in {10, 20}, cats \in HistoryItemLists}

\* buildCustomerPurchaseHistory(customerId, orders); returns null as << >>
callBuildCustomerPurchaseHistory ==
    /\ Calling("buildCustomerPurchaseHistory")
    /\ returned' = <<buildCustomerPurchaseHistory(args.customerId, args.orders)>>
    /\ UNCHANGED <<pc, args, orders, processed, coAffinityMatrix, batchVars,
                   matrixVars, scoringVars>>

InitHistory ==
    /\ pc = "buildCustomerPurchaseHistory"
    /\ args \in [customerId : {"c1"},
                 orders : SeqsUpTo(HistoryOrders, MaxHistoryOrders)]
    /\ OnlyCall

NextHistory == callBuildCustomerPurchaseHistory

SpecHistory == InitHistory /\ [][NextHistory]_vars

\* The positions of the customer's orders in the order list
OwnOrders == {k \in 1..Len(args.orders) : args.orders[k].customerId = args.customerId}

\* The positions of the customer's orders that hold the category
OwnOrdersWith(cat) == {k \in OwnOrders : OrderHas(args.orders[k], cat)}

\* The greatest createdAt among the orders at the positions
LatestDate(positions) ==
    CHOOSE d \in {args.orders[k].createdAt : k \in positions} :
        \A k \in positions : args.orders[k].createdAt <= d

\* The categories the customer ever bought
CategoriesBought ==
    UNION {{args.orders[k].items[n].categoryId : n \in 1..Len(args.orders[k].items)} :
              k \in OwnOrders}

\* C17: the history has one entry per category the customer ever bought;
\* frequency is the number of the customer's orders holding the category (not
\* of items) and lastPurchaseDate the greatest createdAt among them;
\* totalOrders is the number of the customer's orders and lastOrderDate their
\* greatest createdAt; orders of other customers contribute nothing, and a
\* customer without orders has no history (null).
C17_HistoryCountsOrders ==
    Returned("buildCustomerPurchaseHistory") =>
        IF OwnOrders = {} THEN returned[1] = << >>
        ELSE /\ returned[1] # << >>
             /\ LET history == returned[1][1]
                    entries == history.categories
                IN  /\ history.customerId = args.customerId
                    /\ history.totalOrders = Cardinality(OwnOrders)
                    /\ history.lastOrderDate = LatestDate(OwnOrders)
                    /\ {entries[i].categoryId : i \in 1..Len(entries)}
                           = CategoriesBought
                    /\ Len(entries) = Cardinality(CategoriesBought)
                    /\ \A i \in 1..Len(entries) :
                           LET with == OwnOrdersWith(entries[i].categoryId)
                           IN  /\ entries[i].frequency = Cardinality(with)
                               /\ entries[i].lastPurchaseDate = LatestDate(with)

\* Two orders of the customer next to an order of another customer: a
\* category held twice by the newer order and once by the older one has
\* frequency 2 and the newer date, and the other customer's category is absent
C17_Witness ==
    /\ Returned("buildCustomerPurchaseHistory")
    /\ returned[1] # << >>
    /\ \E k, l \in OwnOrders :
           /\ args.orders[k].createdAt = 20
           /\ args.orders[l].createdAt = 10
           /\ RepeatsCategory(args.orders[k], "a", "a")
           /\ OrderHas(args.orders[l], "a")
    /\ \E k \in 1..Len(args.orders) :
           /\ args.orders[k].customerId = "c2"
           /\ OrderHas(args.orders[k], "b")
    /\ returned[1][1].totalOrders = 2
    /\ Len(returned[1][1].categories) = 1
    /\ returned[1][1].categories[1].frequency = 2
    /\ returned[1][1].categories[1].lastPurchaseDate = 20

\* The position of the order chosen as the most recent one: the first of the
\* customer's orders with the greatest createdAt (the sort is stable)
MostRecentOrder ==
    CHOOSE k \in OwnOrders :
        /\ args.orders[k].createdAt = LatestDate(OwnOrders)
        /\ \A l \in OwnOrders :
               args.orders[l].createdAt = LatestDate(OwnOrders) => k <= l

\* C18: isLastOrder of a category is true exactly when the category is in the
\* single order chosen as the customer's most recent one, however many older
\* orders hold it and wherever the walk meets it.
C18_IsLastOrderFromMostRecent ==
    (Returned("buildCustomerPurchaseHistory") /\ OwnOrders # {}) =>
        LET entries == returned[1][1].categories
        IN  \A i \in 1..Len(entries) :
                entries[i].isLastOrder
                    <=> OrderHas(args.orders[MostRecentOrder], entries[i].categoryId)

\* Three orders of the customer: the most recent one and an older one hold a
\* category that is flagged, another order of the most recent date, later in
\* the list, holds a category that is not
C18_Witness ==
    /\ Returned("buildCustomerPurchaseHistory")
    /\ Cardinality(OwnOrders) = 3
    /\ \E k, l \in OwnOrders :
           /\ k # MostRecentOrder
           /\ l # MostRecentOrder
           /\ args.orders[k].createdAt < LatestDate(OwnOrders)
           /\ args.orders[l].createdAt = LatestDate(OwnOrders)
           /\ OrderHas(args.orders[k], "a")
           /\ OrderHas(args.orders[l], "b")
    /\ \E i, j \in 1..Len(returned[1][1].categories) :
           /\ returned[1][1].categories[i].categoryId = "a"
           /\ returned[1][1].categories[i].isLastOrder
           /\ returned[1][1].categories[i].frequency >= 2
           /\ returned[1][1].categories[j].categoryId = "b"
           /\ ~returned[1][1].categories[j].isLastOrder

----------------------------------------------------------------------------
(* calculateAllSeedWeights called on its own *)

MaxFrequency == 4

\* CategoryPurchaseInfo of a category, also with a frequency of 0 or less
PurchaseInfos(cat) ==
    {[categoryId |-> cat, frequency |-> f, lastPurchaseDate |-> 20,
      isLastOrder |-> last] :
        f \in -1..MaxFrequency, last \in BOOLEAN}

\* Purchase histories over at most two categories, in either insertion order
PurchaseHistories ==
    {[customerId |-> "c1", categories |-> infos, lastOrderDate |-> 20,
      totalOrders |-> MaxFrequency] :
        infos \in {<< >>}
                  \cup {<<x>> : x \in PurchaseInfos("a") \cup PurchaseInfos("b")}
                  \cup {<<x, y>> : x \in PurchaseInfos("a"), y \in PurchaseInfos("b")}
                  \cup {<<y, x>> : x \in PurchaseInfos("a"), y \in PurchaseInfos("b")}}

\* calculateAllSeedWeights(purchaseHistory)
callCalculateAllSeedWeights ==
    /\ Calling("calculateAllSeedWeights")
    /\ returned' = <<calculateAllSeedWeights(args.purchaseHistory)>>
    /\ UNCHANGED <<pc, args, orders, processed, coAffinityMatrix, batchVars,
                   matrixVars, scoringVars>>

InitSeedWeights ==
    /\ pc = "calculateAllSeedWeights"
    /\ args \in [purchaseHistory : PurchaseHistories]
    /\ OnlyCall

NextSeedWeights == callCalculateAllSeedWeights

SpecSeedWeights == InitSeedWeights /\ [][NextSeedWeights]_vars

\* min(1.6, 1.0 + 0.5 * log2(frequency)) at an integer frequency: log2 is 0
\* at 1 and 1 at 2, and at least log2(3) > 1.2 from 3 on, where the cap holds
CappedFrequencyBoost(frequency) ==
    IF frequency <= 1 THEN Rat(1, 1)
    ELSE IF frequency = 2 THEN Rat(3, 2)
    ELSE Rat(8, 5)

----------------------------------------------------------------------------
(* calculateCustomerAffinity called on its own *)

AffinityGoals == {"g", "x", "a"}

\* CoAffinity matrices over (a, b, g) and, without the category b, over (a, g)
CoAffinityMatrices ==
    {[categories |-> <<"a", "b", "g">>,
      matrix |-> <<<<Zero, Rat(1, 4), u[1]>>,
                   <<Rat(1, 4), Zero, u[2]>>,
                   <<u[1], u[2], Zero>>>>] :
        u \in UnitValues \X UnitValues}
    \cup
    {[categories |-> <<"a", "g">>, matrix |-> <<<<Zero, v>>, <<v, Zero>>>>] :
        v \in UnitValues}

\* calculateCustomerAffinity(purchaseHistory, goalCategory, coAffinityMatrix,
\* categoryIndexMap), the index map being that of the matrix's categories
callCalculateCustomerAffinity ==
    /\ Calling("calculateCustomerAffinity")
    /\ returned' = <<calculateCustomerAffinity(args.purchaseHistory,
                                               args.goalCategory,
                                               args.coAffinityMatrix)>>
    /\ UNCHANGED <<pc, args, orders, processed, coAffinityMatrix, batchVars,
                   matrixVars, scoringVars>>

MaxRawQuarters == 16

\* Raw signals 0, 1/4, ..., MaxRawQuarters/4
RawSignals == {Rat(n, 4) : n \in 0..MaxRawQuarters}

\* calculateFinalAffinity(rawSignal)
callCalculateFinalAffinity ==
    /\ Calling("calculateFinalAffinity")
    /\ returned' = <<calculateFinalAffinity(args.rawSignal)>>
    /\ UNCHANGED <<pc, args, orders, processed, coAffinityMatrix, batchVars,
                   matrixVars, scoringVars>>

InitAffinity ==
    /\ \/ /\ pc = "calculateCustomerAffinity"
          /\ args \in [purchaseHistory : PurchaseHistories,
                       goalCategory : AffinityGoals,
                       coAffinityMatrix : CoAffinityMatrices]
       \/ /\ pc = "calculateFinalAffinity"
          /\ args \in [rawSignal : RawSignals]
    /\ OnlyCall

NextAffinity ==
    \/ callCalculateCustomerAffinity
    \/ callCalculateFinalAffinity

SpecAffinity == InitAffinity /\ [][NextAffinity]_vars

\* coaffinity[cat1][cat2], 0 when either category is not a category of the
\* matrix
CoAffinityOrZero(m, cat1, cat2) ==
    IF \E p, q \in 1..Len(m.categories) :
           m.categories[p] = cat1 /\ m.categories[q] = cat2
    THEN LET p == CHOOSE p \in 1..Len(m.categories) : m.categories[p] = cat1
             q == CHOOSE q \in 1..Len(m.categories) : m.categories[q] = cat2
         IN  m.matrix[p][q]
    ELSE Zero

\* C20: calculateCustomerAffinity produces one weighted signal per seed
\* weight, equal to coaffinity[seedCategory][goalCategory] * seedWeight with
\* the coaffinity 0 when the seed or the goal category is absent from the
\* matrix index; maxWeightedSignal is the maximum of the signals, and is 0,
\* with affinity 0, when there are no seed weights.
C20_WeightedSignalsAndMaximum ==
    Returned("calculateCustomerAffinity") =>
        LET out == returned[1]
            seeds == out.seedWeights
            signals == out.weightedSignals
        IN  /\ Len(seeds) = Len(args.purchaseHistory.categories)
            /\ Len(signals) = Len(seeds)
            /\ \A i \in 1..Len(seeds) :
                   /\ signals[i].categoryId = seeds[i].categoryId
                   /\ signals[i].signal
                          = RMul(CoAffinityOrZero(args.coAffinityMatrix,
                                                  seeds[i].categoryId,
                                                  args.goalCategory),
                                 seeds[i].seedWeight)
            /\ Len(seeds) = 0
                   => out.maxWeightedSignal = Zero /\ out.affinity = Zero
            /\ Len(seeds) > 0
                   => /\ \E i \in 1..Len(signals) :
                             out.maxWeightedSignal = signals[i].signal
                      /\ \A i \in 1..Len(signals) :
                             RLe(signals[i].signal, out.maxWeightedSignal)

\* Two seed categories with different positive signals towards the goal: the
\* maximum is the second signal, less than their sum
C20_Witness ==
    /\ Returned("calculateCustomerAffinity")
    /\ Len(returned[1].weightedSignals) = 2
    /\ RLt(Zero, returned[1].weightedSignals[1].signal)
    /\ RLt(returned[1].weightedSignals[1].signal,
           returned[1].weightedSignals[2].signal)
    /\ returned[1].maxWeightedSignal = returned[1].weightedSignals[2].signal
    /\ RLt(Zero, returned[1].affinity)

----------------------------------------------------------------------------
(* Affinity statistics: calculateAffinityStats called on its own *)

\* values.reduce((sum, val) => sum + val, 0)
RECURSIVE sumValues(_)
sumValues(values) ==
    IF values = << >> THEN Zero
    ELSE RAdd(sumValues(SubSeq(values, 1, Len(values) - 1)), values[Len(values)])

\* mean: 0 for an empty array, else the sum over the length
mean(values) ==
    IF Len(values) = 0 THEN Zero
    ELSE RDiv(sumValues(values), Rat(Len(values), 1))

\* median: 0 for an empty array; of the ascending copy, the middle element or
\* the half sum of the two middle elements (sorted is 1-based here)
median(values) ==
    IF Len(values) = 0 THEN Zero
    ELSE LET sorted == sortAscending(values)
             mid == Len(sorted) \div 2
         IN  IF Len(sorted) % 2 = 0
             THEN RDiv(RAdd(sorted[mid], sorted[mid + 1]), Rat(2, 1))
             ELSE sorted[mid + 1]

\* Math.min(...values)
RECURSIVE leastOf(_)
leastOf(values) ==
    IF Len(values) = 1 THEN values[1]
    ELSE RMin(leastOf(SubSeq(values, 1, Len(values) - 1)), values[Len(values)])

\* Math.max(...values)
RECURSIVE greatestOf(_)
greatestOf(values) ==
    IF Len(values) = 1 THEN values[1]
    ELSE RMax(greatestOf(SubSeq(values, 1, Len(values) - 1)), values[Len(values)])

\* min: 0 for an empty array
min(values) == IF Len(values) = 0 THEN Zero ELSE leastOf(values)

\* max: 0 for an empty array
max(values) == IF Len(values) = 0 THEN Zero ELSE greatestOf(values)

\* results.map((r) => r.affinity)
affinitiesOf(rs) == [i \in 1..Len(rs) |-> rs[i].affinity]

\* Variant: the medium bucket takes 0.66 as well (a <= 0.66)
calculateAffinityStatsInclusive(rs, goal, totalCustomers) ==
    LET affinities == affinitiesOf(rs)
        isLow(a) == RLt(a, Rat(33, 100))
        isMedium(a) == RLe(Rat(33, 100), a) /\ RLe(a, Rat(66, 100))
        isHigh(a) == RLe(Rat(66, 100), a)
    IN  [goalCategory |-> goal,
         totalEligibleCustomers |-> totalCustomers,
         processedCustomers |-> Len(rs),
         avgAffinity |-> mean(affinities),
         medianAffinity |-> median(affinities),
         minAffinity |-> min(affinities),
         maxAffinity |-> max(affinities),
         affinityDistribution |->
             [low |-> Len(SelectSeq(affinities, isLow)),
              medium |-> Len(SelectSeq(affinities, isMedium)),
              high |-> Len(SelectSeq(affinities, isHigh))]]

\* calculateAffinityStats(results, goalCategory, totalCustomers)
calculateAffinityStats(rs, goal, totalCustomers) ==
    LET affinities == affinitiesOf(rs)
        isLow(a) == RLt(a, Rat(33, 100))
        isMedium(a) == RLe(Rat(33, 100), a) /\ RLt(a, Rat(66, 100))
        isHigh(a) == RLe(Rat(66, 100), a)
    IN  [goalCategory |-> goal,
         totalEligibleCustomers |-> totalCustomers,
         processedCustomers |-> Len(rs),
         avgAffinity |-> mean(affinities),
         medianAffinity |-> median(affinities),
         minAffinity |-> min(affinities),
         maxAffinity |-> max(affinities),
         affinityDistribution |->
             [low |-> Len(SelectSeq(affinities, isLow)),
              medium |-> Len(SelectSeq(affinities, isMedium)),
              high |-> Len(SelectSeq(affinities, isHigh))]]

MaxResults == 3

\* Affinities on both sides of, and exactly on, the bucket thresholds
StatAffinities ==
    {Zero, Rat(1, 4), Rat(33, 100), Rat(1, 2), Rat(66, 100), Rat(3, 4)}

\* CustomerAffinityResult records as far as calculateAffinityStats reads them
StatResults ==
    {[customerId |-> "c1", goalCategory |-> "g", seedWeights |-> << >>,
      weightedSignals |-> << >>, maxWeightedSignal |-> Zero, affinity |-> a] :
        a \in StatAffinities}

callCalculateAffinityStats ==
    /\ Calling("calculateAffinityStats")
    /\ returned' = <<calculateAffinityStats(args.results, args.goalCategory,
                                            args.totalCustomers)>>
    /\ UNCHANGED <<pc, args, orders, processed, coAffinityMatrix, batchVars, matrixVars, scoringVars>>

InitStats ==
    /\ pc = "calculateAffinityStats"
    /\ \E rs \in SeqsUpTo(StatResults, MaxResults) :
           args \in [results : {rs}, goalCategory : {"g"},
                     totalCustomers : Len(rs)..MaxResults]
    /\ OnlyCall

NextStats == callCalculateAffinityStats

SpecStats == InitStats /\ [][NextStats]_vars

\* The indexes of the results whose affinity satisfies lo <= a < hi
InBucket(lo, hi) ==
    {i \in 1..Len(args.results) :
        /\ RLe(lo, args.results[i].affinity)
        /\ RLt(args.results[i].affinity, hi)}

----------------------------------------------------------------------------
(* Percentiles outside [0, 100] *)

\* The percentile argument lies outside [0, 100]
PercentileOutOfRange ==
    \/ RLt(args.percentile, Zero)
    \/ RLt(Rat(100, 1), args.percentile)

\* C23: calculatePercentile raises no error for p outside [0,100], and for a
\* non-empty sample and p < 0 or p > 100 its result is a defined number, the
\* extrapolation of the interpolation rule at idx = (p/100)*(n-1).
C23_OutOfRangePercentileIsNumber ==
    (Returned("calculatePercentile") /\ Len(args.values) > 0
        /\ PercentileOutOfRange) =>
        /\ error = << >>
        /\ IsNumber(returned[1])

\* calculatePercentile returned without an error for a sample of three values
\* and the percentile 150, whose index 3 is past the last element
C23_Witness ==
    /\ Returned("calculatePercentile")
    /\ Len(args.values) = 3
    /\ args.percentile = Rat(150, 1)
    /\ error = << >>
    /\ returned[1] = Undefined

----------------------------------------------------------------------------
(* Order preservation of normalizeP5P95 *)

\* value lies inside the window [P5, P95] of the call
InWindow(value) == RLe(args.p5, value) /\ RLe(value, args.p95)

----------------------------------------------------------------------------
(* calculateAffinities: the CLI entry point, with the customer loop of       *)
(* processAllCustomers taken one statement at a time                         *)

\* The customer of the running iteration
currentCustomer == customers[processed]

\* if (!validCategories.includes(goal)) process.exit(1)
validateCliGoal ==
    /\ pc = "cli"
    /\ pc' = IF ~Includes(categoryIds, goalCategory) THEN "exit" ELSE "start"
    /\ UNCHANGED <<batchInputs, orders, coAffinityMatrix, processed,
                   batchOutputs, matrixVars, callVars, scoringVars>>

\* Variant: the orders array itself is sorted (orders.sort without the
\* filter's copy)
buildHistorySortsInPlace ==
    /\ pc = "loop"
    /\ processed < Len(customers)
    /\ processed' = processed + 1
    /\ orders' = sortByDateDesc(orders)
    /\ LET history == buildCustomerPurchaseHistory(customers[processed + 1], orders)
       IN  /\ purchaseHistory' = history
           /\ IF history = << >>
              THEN /\ skipped' = Append(skipped,
                                        [customerId |-> customers[processed + 1],
                                         reason |-> "No orders"])
                   /\ pc' = pc
              ELSE /\ skipped' = skipped
                   /\ pc' = "eligibility"
    /\ UNCHANGED <<batchInputs, coAffinityMatrix, results, error,
                   affinityStats, matrixVars, callVars>>

\* processed++; purchaseHistory = buildCustomerPurchaseHistory(customer.id,
\* orders); a null history is skipped with "No orders"
buildHistory ==
    /\ pc = "loop"
    /\ processed < Len(customers)
    /\ processed' = processed + 1
    /\ LET history == buildCustomerPurchaseHistory(customers[processed + 1], orders)
       IN  /\ purchaseHistory' = history
           /\ IF history = << >>
              THEN /\ skipped' = Append(skipped,
                                        [customerId |-> customers[processed + 1],
                                         reason |-> "No orders"])
                   /\ pc' = pc
              ELSE /\ skipped' = skipped
                   /\ pc' = "eligibility"
    /\ UNCHANGED <<batchInputs, orders, coAffinityMatrix, results, error,
                   affinityStats, matrixVars, callVars>>

\* if (!isCustomerEligible(...)) { skipped.push(...); continue; }
checkEligibility ==
    /\ pc = "eligibility"
    /\ IF ~isCustomerEligible(purchaseHistory[1], goalCategory, activeDays,
                              referenceDate)
       THEN LET hasGoalCategory == hasCategory(purchaseHistory[1], goalCategory)
                reason == IF hasGoalCategory
                          THEN "Already purchased goal category"
                          ELSE "Not active in window"
            IN  /\ skipped' = Append(skipped, [customerId |-> currentCustomer,
                                               reason |-> reason])
                /\ pc' = "loop"
       ELSE /\ skipped' = skipped
            /\ pc' = "affinity"
    /\ UNCHANGED <<batchInputs, orders, coAffinityMatrix, processed, results,
                   error, matrixVars, callVars, scoringVars>>

\* results.push(calculateCustomerAffinity(purchaseHistory, goalCategory,
\* coAffinityMatrix, categoryIndexMap))
scoreCustomer ==
    /\ pc = "affinity"
    /\ results' = Append(results,
                         calculateCustomerAffinity(purchaseHistory[1], goalCategory,
                                                   coAffinityMatrix))
    /\ pc' = "loop"
    /\ UNCHANGED <<batchInputs, orders, coAffinityMatrix, processed, skipped,
                   error, matrixVars, callVars, scoringVars>>

\* const stats = calculateAffinityStats(results, goal, customers.length)
calculateStats ==
    /\ pc = "done"
    /\ affinityStats' = <<calculateAffinityStats(results, goalCategory,
                                                 Len(customers))>>
    /\ pc' = "stats"
    /\ UNCHANGED <<batchInputs, orders, coAffinityMatrix, processed,
                   batchOutputs, purchaseHistory, matrixVars, callVars>>

\* The --goal option: in the matrix, in categories.json only, in neither
CliGoals == {"g", "x", "y"}

\* categories.json
LoadedCategories == <<"a", "b", "g", "x">>

InitAffinities ==
    /\ pc = "cli"
    /\ customers \in CustomerLists
    /\ orders \in SeqsUpTo(OrdersOver(CustomerIds, OrderDates, BatchCategories,
                                      MaxBatchItems),
                           MaxBatchOrders)
    /\ categoryIds = LoadedCategories
    /\ coAffinityMatrix = LoadedCoAffinity
    /\ goalCategory \in CliGoals
    /\ activeDays \in ActiveDaysSet
    /\ referenceDate \in ReferenceDates
    /\ processed = 0
    /\ results = << >>
    /\ skipped = << >>
    /\ error = << >>
    /\ matrix = << >>
    /\ orderCounts = << >>
    /\ coOrdersMatrix = << >>
    /\ liftMatrix = << >>
    /\ normalizedLift = << >>
    /\ normalizedCoOrders = << >>
    /\ stats = << >>
    /\ ScoringIdle
    /\ CallIdle

NextAffinities ==
    \/ validateCliGoal
    \/ validateGoalCategory
    \/ buildHistory
    \/ checkEligibility
    \/ scoreCustomer
    \/ returnResults
    \/ calculateStats

SpecAffinities == InitAffinities /\ [][NextAffinities]_vars

\* C25: the scoring pipeline leaves its inputs as they were: no step of
\* processAllCustomers (buildCustomerPurchaseHistory, isCustomerEligible,
\* calculateCustomerAffinity) changes the order list, the customer list, the
\* CoAffinity matrix or the reference date, and a purchase history stays as
\* buildCustomerPurchaseHistory returned it while the iteration uses it.
C25_InputsUnchanged ==
    [][/\ orders' = orders
       /\ customers' = customers
       /\ coAffinityMatrix' = coAffinityMatrix
       /\ referenceDate' = referenceDate
       /\ pc \in {"eligibility", "affinity"} =>
              /\ purchaseHistory' = purchaseHistory
              /\ purchaseHistory =
                     buildCustomerPurchaseHistory(currentCustomer, orders)]_vars

\* processAllCustomers returned after scoring a customer whose two orders are
\* listed oldest first, the order in which the history does not walk them
C25_Witness ==
    /\ pc = "done"
    /\ Len(results) >= 1
    /\ Len(orders) = 2
    /\ orders[1].customerId = orders[2].customerId
    /\ orders[1].createdAt < orders[2].createdAt
    /\ \E i \in 1..Len(results) : results[i].customerId = orders[1].customerId

----------------------------------------------------------------------------
(* The statistics of a run of calculateAffinities *)

\* C30: the totalEligibleCustomers of the statistics calculateAffinities
\* builds is the number of customers that passed the eligibility check, the
\* number of results (processedCustomers), not the size of the customer list.
C30_EligibleCountIsResults ==
    pc = "stats" =>
        /\ affinityStats[1].totalEligibleCustomers = Len(results)
        /\ affinityStats[1].totalEligibleCustomers =
               affinityStats[1].processedCustomers

\* Statistics built for a run of two customers of which one was scored and
\* one was skipped
C30_Witness ==
    /\ pc = "stats"
    /\ Len(customers) = 2
    /\ Len(results) = 1
    /\ Len(skipped) = 1
    /\ affinityStats[1].processedCustomers = 1
    /\ affinityStats[1].totalEligibleCustomers = 2

----------------------------------------------------------------------------
(* Independence of the customers of a batch run *)

\* The order list with the orders of every customer other than c left out
WithoutOthers(c) ==
    LET isOwn(o) == o.customerId = c
    IN  SelectSeq(orders, isOwn)

\* What the loop body records for customer c when c's orders are the only
\* orders there are
OutcomeAlone(c) ==
    processCustomer(c, WithoutOthers(c), coAffinityMatrix, goalCategory,
                    activeDays, referenceDate)

\* C26: the outcome processAllCustomers records for a customer, a given
\* result or a skip with a given reason, depends only on that customer's own
\* orders, the CoAffinity matrix, the goal category, activeDays and the
\* reference date: it is the outcome the customer gets when no other customer
\* and no other customer's order exists, whatever the customer's position in
\* the list.
C26_OutcomeOfOwnOrdersOnly ==
    /\ \A i \in 1..Len(results) :
           OutcomeAlone(results[i].customerId) =
               [skipped |-> << >>, results |-> <<results[i]>>]
    /\ \A i \in 1..Len(skipped) :
           OutcomeAlone(skipped[i].customerId) =
               [skipped |-> <<skipped[i]>>, results |-> << >>]

\* A finished run over two customers, the second one scored, where the order
\* list holds an order of the first customer, of the goal category, before the
\* order of the second
C26_Witness ==
    /\ pc = "done"
    /\ Len(customers) = 2
    /\ Len(orders) = 2
    /\ orders[1].customerId = customers[1]
    /\ orders[2].customerId = customers[2]
    /\ Bought(customers[1], goalCategory)
    /\ customers[2] \in ResultIds
    /\ customers[1] \in SkippedIds

----------------------------------------------------------------------------
(* Co-order counts against single-category counts *)

\* m[i][j] <= min(counts[i], counts[j]) for all distinct known categories
PairsWithinCounts(m, counts, ids) ==
    \A i, j \in 1..Len(ids) :
        i # j => /\ m[i][j] <= counts[ids[i]]
                 /\ m[i][j] <= counts[ids[j]]

\* C27: after calculateCoOrderMatrix has processed any prefix of the order
\* list, for distinct known categories i, j the cell matrix[i][j] is at most
\* min(orderCounts[i], orderCounts[j]) and every order count is at most the
\* number of orders processed; in the returned structure matrix[i][j] <=
\* orderCounts[i] <= totalOrders, and a cell is positive only if both
\* categories have a positive order count.
C27_PairsBoundedByCounts ==
    /\ pc = "coOrders" =>
           /\ PairsWithinCounts(matrix, orderCounts, categoryIds)
           /\ \A c \in DOMAIN orderCounts : orderCounts[c] <= processed
    /\ coOrdersMatrix # << >> =>
           LET co == coOrdersMatrix[1]
               n == Len(co.category)
           IN  /\ \A i, j \in 1..n :
                      i # j =>
                          /\ co.matrix[i][j] <= co.orderCounts[co.category[i]]
                          /\ co.matrix[i][j] > 0 =>
                                 /\ co.orderCounts[co.category[i]] > 0
                                 /\ co.orderCounts[co.category[j]] > 0
               /\ \A i \in 1..n :
                      co.orderCounts[co.category[i]] <= co.totalOrders

\* A prefix of one order out of two has been processed: the pair (a, b) was
\* counted once, both categories have count 1, and another order follows
C27_Witness ==
    /\ pc = "coOrders"
    /\ processed = 1
    /\ Len(orders) = 2
    /\ \E i, j \in 1..Len(categoryIds) :
           /\ i # j
           /\ matrix[i][j] = 1
           /\ orderCounts[categoryIds[i]] = 1
           /\ orderCounts[categoryIds[j]] = 1

----------------------------------------------------------------------------
(* Bounds on the entries of a purchase history *)

\* C28: in every history buildCustomerPurchaseHistory returns, every category
\* entry has 1 <= frequency <= totalOrders and lastPurchaseDate <=
\* lastOrderDate, and an entry with isLastOrder has lastPurchaseDate =
\* lastOrderDate; when the most recent order has at least one item, at least
\* one entry has isLastOrder.
C28_HistoryEntryBounds ==
    (Returned("buildCustomerPurchaseHistory") /\ returned[1] # << >>) =>
        LET history == returned[1][1]
            entries == history.categories
        IN  /\ \A i \in 1..Len(entries) :
                   /\ 1 <= entries[i].frequency
                   /\ entries[i].frequency <= history.totalOrders
                   /\ entries[i].lastPurchaseDate <= history.lastOrderDate
                   /\ entries[i].isLastOrder =>
                          entries[i].lastPurchaseDate = history.lastOrderDate
            /\ Len(args.orders[MostRecentOrder].items) >= 1 =>
                   \E i \in 1..Len(entries) : entries[i].isLastOrder

\* A history of three orders on two dates: one category bought in every order
\* and flagged, another bought only in the older order and not flagged
C28_Witness ==
    /\ Returned("buildCustomerPurchaseHistory")
    /\ returned[1] # << >>
    /\ returned[1][1].totalOrders = 3
    /\ \E i, j \in 1..Len(returned[1][1].categories) :
           /\ returned[1][1].categories[i].frequency = 3
           /\ returned[1][1].categories[i].isLastOrder
           /\ returned[1][1].categories[j].frequency = 1
           /\ ~returned[1][1].categories[j].isLastOrder
           /\ returned[1][1].categories[j].lastPurchaseDate
                  < returned[1][1].lastOrderDate

----------------------------------------------------------------------------
(* Ranges of seed weights and weighted signals *)

\* x lies in [lo, hi]
Within(x, lo, hi) == IsNumber(x) /\ RLe(lo, x) /\ RLe(x, hi)

\* Every frequency of the history of the call is an integer >= 1
FrequenciesPositive ==
    \A i \in 1..Len(args.purchaseHistory.categories) :
        args.purchaseHistory.categories[i].frequency >= 1

\* 1.0 at frequency 1, 1.5 at frequency 2, 1.6 from frequency 3 on
BoostTable(frequency) ==
    IF frequency = 1 THEN One
    ELSE IF frequency = 2 THEN Rat(3, 2)
    ELSE Rat(8, 5)

====
